---- MODULE Spec2Model ----
(***************************************************************************)
(* Model of the retry executor of src/src/lib/performanceMonitor.ts        *)
(* (retry, retryFetch, calculateDelay, the default retryability            *)
(* predicates).  One invocation of retry() is a small state machine: the   *)
(* for-loop of retry() with its two suspension points (await fn() and      *)
(* await sleep(delay)).                                                    *)
(*                                                                         *)
(* JavaScript values are records.  A string is the tuple of its characters *)
(* so that String.prototype.includes is a real substring search.           *)
(***************************************************************************)
EXTENDS Integers, Sequences, FiniteSets, Bags, TLC

VARIABLES
    opts,           \* the destructured RetryOptions of this invocation
    entry,          \* "retry": retry() called directly; "retryFetch": through retryFetch()
    pc,             \* position of retry(): "loop", "awaiting", "sleeping", "returned", "rejected"
    attempt,        \* the loop variable of retry()
    calls,          \* number of times fn() has been invoked
    lastError,      \* the local lastError
    lastResponse,   \* the local lastResponse
    lastOutcome,    \* how the most recent fn() call settled
    retryableFails, \* number of fn() calls that settled as a retryable failure
    delays,         \* the delays passed to sleep(), in order
    now,            \* Date.now() - startTime
    result,         \* the RetryResult retry() resolved with
    rejection,      \* the reason retry() rejected with
    fetchResult,    \* how retryFetch() settled
    parked,         \* a second invocation of retry(), suspended: its number and its locals
    normCall,       \* the call of a meal-normalization function: its name and arguments
    normReturn,     \* the value that call returned
    user_meals,     \* the rows inserted into the user_meals table
    requests,       \* the requests handled by the nutrition-ai edge function
    rate_limits,    \* the rows of the rate_limits table
    metricsBuffer,  \* the module-level metricsBuffer array
    reportIntervalId, \* the module-level reportIntervalId
    recorded        \* number of metrics recorded so far

vars == <<opts, entry, pc, attempt, calls, lastError, lastResponse, lastOutcome,
          retryableFails, delays, now, result, rejection, fetchResult, parked,
          normCall, normReturn, user_meals, requests, rate_limits,
          metricsBuffer, reportIntervalId, recorded>>

\* the variables of the meal-normalization functions and of the meal analysis
normVars == <<normCall, normReturn, user_meals>>

\* the variables of retry() and retryFetch()
retryVars == <<opts, entry, pc, attempt, calls, lastError, lastResponse, lastOutcome,
               retryableFails, delays, now, result, rejection, fetchResult, parked>>

\* the variables of the nutrition-ai edge function
edgeVars == <<requests, rate_limits>>

\* the variables of the metrics buffer
bufferVars == <<metricsBuffer, reportIntervalId, recorded>>

----------------------------------------------------------------------------
(* Bounds of the model *)

MaxRetriesBound == 2

----------------------------------------------------------------------------
(* JavaScript values *)

Undefined == [type |-> "undefined"]

Null == [type |-> "null"]

NoValue == [type |-> "none"]


Msg_FetchFailed == <<"f","e","t","c","h"," ","f","a","i","l","e","d">>
Msg_NoData == <<"N","o"," ","d","a","t","a">>
Msg_FetchFailedAfterRetries == <<"F","e","t","c","h"," ","f","a","i","l","e","d"," ","a","f","t","e","r">>

\* String.prototype.includes
Includes(s, p) ==
    \E i \in 1..(Len(s) - Len(p) + 1) : SubSeq(s, i, i + Len(p) - 1) = p

\* An object thrown by fn(): ref is the fn() call that created it (object identity).
Thrown(class, message, ref) ==
    [type |-> "thrown", class |-> class, message |-> message, ref |-> <<"fn", ref>>]

\* new Error(message) evaluated by retry() or retryFetch() at the named site.
NewError(message, site) ==
    [type |-> "thrown", class |-> "Error", message |-> message, ref |-> <<"new", site>>]

instanceofError(v) == v.type = "thrown" /\ v.class \in {"Error", "TypeError"}

instanceofTypeError(v) == v.type = "thrown" /\ v.class = "TypeError"

\* A Response object; ok is status in 200..299.
Response(status, ref) ==
    [type |-> "response", status |-> status, ok |-> (status >= 200 /\ status <= 299),
     ref |-> <<"fn", ref>>]

instanceofResponse(v) == v.type = "response"

\* JavaScript truthiness of the values of the model (objects and non-empty strings are truthy).
Truthy(v) == v.type \notin {"undefined", "none"}

\* String(v) for the thrown values of the model that are not Error instances.
String(v) == v.message

\* What fn() can throw: Error and TypeError instances, and a bare string.
ThrownTemplates ==
    { [class |-> "TypeError", message |-> Msg_FetchFailed],
      [class |-> "TypeError",    \* "x is not a function"
       message |-> <<"x"," ","i","s"," ","n","o","t"," ","a"," ","f","u","n","c","t","i","o","n">>],
      [class |-> "Error", message |-> Msg_FetchFailed],
      [class |-> "Error",        \* "Network error"
       message |-> <<"N","e","t","w","o","r","k"," ","e","r","r","o","r">>],
      [class |-> "Error",        \* "Request timeout"
       message |-> <<"R","e","q","u","e","s","t"," ","t","i","m","e","o","u","t">>],
      [class |-> "Error",        \* "Validation error"
       message |-> <<"V","a","l","i","d","a","t","i","o","n"," ","e","r","r","o","r">>],
      [class |-> "string", message |-> <<"t","i","m","e","o","u","t">>] }

Statuses == {200, 404, 429, 500, 503}

PlainValues == { [type |-> "value", v |-> "success"], Undefined }

\* The ways one call of fn() can settle; ref is the index of the call.
Resolutions(ref) ==
    PlainValues \cup { Response(s, ref) : s \in Statuses }

Rejections(ref) ==
    { Thrown(t.class, t.message, ref) : t \in ThrownTemplates }

\* fetch() resolves with a Response or rejects with an Error instance.
FetchResolutions(ref) == { Response(s, ref) : s \in Statuses }

FetchRejections(ref) ==
    { e \in Rejections(ref) : instanceofError(e) }

----------------------------------------------------------------------------
(* Retryability predicates *)

defaultIsRetryable(error) ==
    LET S_fetch == <<"f","e","t","c","h">>
        S_timeout == <<"t","i","m","e","o","u","t">>
        S_Timeout == <<"T","i","m","e","o","u","t">>
        S_network == <<"n","e","t","w","o","r","k">>
        S_Network == <<"N","e","t","w","o","r","k">>
    IN
    IF instanceofTypeError(error) /\ Includes(error.message, S_fetch)
    THEN TRUE
    ELSE IF instanceofError(error)
              /\ (Includes(error.message, S_timeout) \/ Includes(error.message, S_Timeout))
    THEN TRUE
    ELSE IF instanceofError(error)
              /\ (Includes(error.message, S_network) \/ Includes(error.message, S_Network))
    THEN TRUE
    ELSE FALSE

\* every status from 400 up retried
defaultIsRetryableResponse_From400(response) ==
    response.status >= 400

defaultIsRetryableResponse(response) ==
    response.status >= 500 \/ response.status = 429

\* The outcome of calling a predicate: it returns a boolean or throws.
Returned(b) == [threw |-> FALSE, value |-> b]

PredicateThrew == [threw |-> TRUE, value |-> FALSE]

\* new Error('predicate failed'), thrown by a caller-supplied predicate
PredicateError ==
    NewError(<<"p","r","e","d","i","c","a","t","e"," ","f","a","i","l","e","d">>,
             "predicate")

\* options.isRetryable: the default, or a caller-supplied function
IsRetryablePolicies == {"default", "always", "never", "throws"}

isRetryable(policy, error) ==
    CASE policy = "default" -> Returned(defaultIsRetryable(error))
      [] policy = "always" -> Returned(TRUE)
      [] policy = "never" -> Returned(FALSE)
      [] policy = "throws" -> PredicateThrew

\* options.isRetryableResponse: the default, or a caller-supplied function
IsRetryableResponsePolicies == {"default", "always", "never", "throws"}

isRetryableResponse(policy, response) ==
    CASE policy = "default" -> Returned(defaultIsRetryableResponse(response))
      [] policy = "always" -> Returned(TRUE)
      [] policy = "never" -> Returned(FALSE)
      [] policy = "throws" -> PredicateThrew

----------------------------------------------------------------------------
(* Delay computation *)

RECURSIVE Pow(_, _)
Pow(b, e) == IF e = 0 THEN 1 ELSE b * Pow(b, e - 1)

Min(a, b) == IF a <= b THEN a ELSE b

Max(a, b) == IF a >= b THEN a ELSE b

\* Math.random() is rnd / 4 for rnd in RandomDraws (0 <= Math.random() < 1).
RandomDraws == {0, 2, 3}

\* calculateDelay without Math.min(exponentialDelay, maxDelay)
calculateDelay_NoCap(n, initialDelay, maxDelay, backoffMultiplier, jitter, rnd) ==
    LET delay == initialDelay * Pow(backoffMultiplier, n)
        jitterAmount == delay \div 5
        jitterValue == ((2 * rnd - 4) * jitterAmount) \div 4
    IN  IF jitter THEN Max(0, delay + jitterValue) ELSE delay

\* calculateDelay with a jitter of half the delay instead of a fifth
calculateDelay_WideJitter(n, initialDelay, maxDelay, backoffMultiplier, jitter, rnd) ==
    LET exponentialDelay == initialDelay * Pow(backoffMultiplier, n)
        delay == Min(exponentialDelay, maxDelay)
        jitterAmount == delay \div 2
        jitterValue == ((2 * rnd - 4) * jitterAmount) \div 4
    IN  IF jitter THEN Max(0, delay + jitterValue) ELSE delay

\* calculateDelay; every delay of the model is a multiple of 10 ms, so that
\* delay * 0.2 and (Math.random() * 2 - 1) * jitterAmount are integers.
calculateDelay(n, initialDelay, maxDelay, backoffMultiplier, jitter, rnd) ==
    LET exponentialDelay == initialDelay * Pow(backoffMultiplier, n)
        delay == Min(exponentialDelay, maxDelay)
        jitterAmount == delay \div 5
        jitterValue == ((2 * rnd - 4) * jitterAmount) \div 4
    IN  IF jitter THEN Max(0, delay + jitterValue) ELSE delay

----------------------------------------------------------------------------
(* Options *)

DefaultInitialDelay == 1000
DefaultMaxDelay == 10000
DefaultBackoffMultiplier == 2

DelayOptions ==
    { [initialDelay |-> DefaultInitialDelay, maxDelay |-> DefaultMaxDelay,
       backoffMultiplier |-> DefaultBackoffMultiplier, jitter |-> TRUE],
      [initialDelay |-> 100, maxDelay |-> 150, backoffMultiplier |-> 2, jitter |-> TRUE],
      [initialDelay |-> 100, maxDelay |-> 1000, backoffMultiplier |-> 2, jitter |-> FALSE],
      [initialDelay |-> 100, maxDelay |-> 150, backoffMultiplier |-> 2, jitter |-> FALSE],
      [initialDelay |-> 20, maxDelay |-> 100, backoffMultiplier |-> 3, jitter |-> FALSE],
      [initialDelay |-> 100, maxDelay |-> 100, backoffMultiplier |-> 1, jitter |-> FALSE] }

Options ==
    { [maxRetries |-> m, initialDelay |-> d.initialDelay, maxDelay |-> d.maxDelay,
       backoffMultiplier |-> d.backoffMultiplier, jitter |-> d.jitter,
       isRetryable |-> p, isRetryableResponse |-> q] :
         m \in 0..MaxRetriesBound, d \in DelayOptions,
         p \in IsRetryablePolicies, q \in IsRetryableResponsePolicies }

----------------------------------------------------------------------------
(* retry() *)

NoResult == [type |-> "none"]

\* no fn() call has settled yet
NoOutcome == [kind |-> "none"]

\* attempts: attempt (the loop index instead of the count)
AttemptsMade_LoopIndex(n) == n

\* attempts: attempt + 1
AttemptsMade(n) == n + 1

SuccessResult(data, n, t) ==
    [success |-> TRUE, data |-> data, attempts |-> AttemptsMade(n), totalTime |-> t]

\* a failure result that also carries a data field
FailureResult_WithData(error, n, t) ==
    [success |-> FALSE, error |-> error, data |-> error, attempts |-> AttemptsMade(n),
     totalTime |-> t]

FailureResult(error, n, t) ==
    [success |-> FALSE, error |-> error, attempts |-> AttemptsMade(n), totalTime |-> t]

\* the loop condition attempt <= maxRetries
LoopCondition(n, maxRetries) == n <= maxRetries

\* attempt > maxRetries instead of attempt >= maxRetries
Exhausted_Strict(n, maxRetries) == n > maxRetries

\* the "Don't retry if we've exhausted attempts" test
Exhausted(n, maxRetries) == n >= maxRetries

\* the return after the loop: lastError || new Error('Unknown error')
FallThroughResult(le, maxRetries, t) ==
    [success |-> FALSE,
     error |-> IF Truthy(le) THEN le
               ELSE NewError(<<"U","n","k","n","o","w","n"," ","e","r","r","o","r">>,
                             "fallthrough"),
     attempts |-> maxRetries + 1, totalTime |-> t]

\* new Error(`${errorMessagePrefix} after ${attempt + 1} attempts: ${status} ${statusText}`)
ExhaustedResponseError(response, n) ==
    [type |-> "thrown", class |-> "Error",
     message |-> <<"R","e","t","r","y"," ","f","a","i","l","e","d"," ","a","f","t","e","r">>,
     ref |-> <<"new", "exhausted">>, attempts |-> n + 1, status |-> response.status]

\* no meal-normalization function has been called
NoCall == [fn |-> "none"]

\* no retry() is under way
RetryIdle ==
    /\ opts = [maxRetries |-> 0, initialDelay |-> DefaultInitialDelay,
               maxDelay |-> DefaultMaxDelay, backoffMultiplier |-> DefaultBackoffMultiplier,
               jitter |-> TRUE, isRetryable |-> "default", isRetryableResponse |-> "default"]
    /\ entry = "none"
    /\ pc = "idle"
    /\ attempt = 0
    /\ calls = 0
    /\ lastError = Undefined
    /\ lastResponse = Undefined
    /\ lastOutcome = NoOutcome
    /\ retryableFails = 0
    /\ delays = << >>
    /\ now = 0
    /\ result = NoResult
    /\ rejection = NoValue
    /\ fetchResult = NoValue
    /\ parked = NoValue

\* Everything but the named part is as the modules leave it when loaded: no
\* call under way, the tables and the metrics buffer empty, no timer set.
IdleExcept(part) ==
    /\ IF part = "retry" THEN parked = NoValue
       ELSE IF part = "pair" THEN TRUE ELSE RetryIdle
    /\ IF part = "norm" THEN TRUE
       ELSE normCall = NoCall /\ normReturn = NoValue /\ user_meals = << >>
    /\ IF part = "edge" THEN TRUE ELSE requests = EmptyBag /\ rate_limits = {}
    /\ IF part = "buffer" THEN TRUE
       ELSE metricsBuffer = << >> /\ reportIntervalId = Null /\ recorded = 0

Init ==
    /\ opts \in Options
    /\ entry \in {"retry", "retryFetch"}
    /\ attempt = 0
    /\ calls = 0
    /\ lastError = Undefined
    /\ lastResponse = Undefined
    /\ lastOutcome = NoOutcome
    /\ retryableFails = 0
    /\ delays = << >>
    /\ now = 0
    /\ rejection = NoValue
    /\ fetchResult = NoValue
    /\ IdleExcept("retry")
    /\ IF LoopCondition(0, opts.maxRetries)
       THEN pc = "loop" /\ result = NoResult
       ELSE pc = "returned" /\ result = FallThroughResult(Undefined, opts.maxRetries, 0)

\* fn() called again while the backoff delay is still running
CallFn_BeforeDelayElapsed ==
    /\ pc \in {"loop", "sleeping"}
    /\ pc' = "awaiting"
    /\ calls' = calls + 1
    /\ UNCHANGED <<opts, entry, attempt, lastError, lastResponse, lastOutcome,
                   retryableFails, delays, now, result, rejection, fetchResult>>
    /\ UNCHANGED <<parked, normVars, edgeVars, bufferVars>>

\* const result = await fn(): the call
CallFn ==
    /\ pc = "loop"
    /\ pc' = "awaiting"
    /\ calls' = calls + 1
    /\ UNCHANGED <<opts, entry, attempt, lastError, lastResponse, lastOutcome,
                   retryableFails, delays, now, result, rejection, fetchResult>>
    /\ UNCHANGED <<parked, normVars, edgeVars, bufferVars>>

\* a return that first takes one more delay
Return_AfterDelay(r) ==
    /\ pc' = "returned"
    /\ result' = r
    /\ delays' = Append(delays, 0)
    /\ UNCHANGED rejection

Return(r) ==
    /\ pc' = "returned"
    /\ result' = r
    /\ UNCHANGED <<delays, rejection>>

Reject(reason) ==
    /\ pc' = "rejected"
    /\ rejection' = reason
    /\ UNCHANGED <<delays, result>>

Sleep(delay) ==
    /\ pc' = "sleeping"
    /\ delays' = Append(delays, delay)
    /\ UNCHANGED <<result, rejection>>

\* lastError = new Error(String(error)) for every caught value
LastErrorOf_AlwaysWraps(error) == NewError(error.message, "wrap")

\* lastError = error instanceof Error ? error : new Error(String(error))
LastErrorOf(error) ==
    IF instanceofError(error) THEN error ELSE NewError(String(error), "wrap")

\* the catch block without the "Not retryable, return immediately" branch
CatchBlock_NoEarlyReturn(error, rnd) ==
    LET le == LastErrorOf(error)
        verdict == isRetryable(opts.isRetryable, error)
    IN  /\ lastError' = le
        /\ IF verdict.threw
           THEN Reject(PredicateError)
           ELSE IF Exhausted(attempt, opts.maxRetries)
           THEN Return(FailureResult(le, attempt, now))
           ELSE Sleep(calculateDelay(attempt, opts.initialDelay, opts.maxDelay,
                                     opts.backoffMultiplier, opts.jitter, rnd))

\* the catch block of retry(), entered with the caught value
CatchBlock(error, rnd) ==
    LET le == LastErrorOf(error)
        verdict == isRetryable(opts.isRetryable, error)
    IN  /\ lastError' = le
        /\ IF verdict.threw
           THEN Reject(PredicateError)
           ELSE IF ~verdict.value
           THEN Return(FailureResult(le, attempt, now))
           ELSE IF Exhausted(attempt, opts.maxRetries)
           THEN Return(FailureResult(le, attempt, now))
           ELSE Sleep(calculateDelay(attempt, opts.initialDelay, opts.maxDelay,
                                     opts.backoffMultiplier, opts.jitter, rnd))

\* the predicate consulted for every Response, ok or not
NonOkResponse_AnyResponse(value) == instanceofResponse(value)

\* result instanceof Response, and the left operand of !result.ok && isRetryableResponse(result)
NonOkResponse(value) == instanceofResponse(value) /\ ~value.ok

\* the try block of retry() after fn() resolved with value
TryBlock(value, rnd) ==
    IF NonOkResponse(value)
    THEN LET verdict == isRetryableResponse(opts.isRetryableResponse, value)
         IN  IF verdict.threw
             THEN /\ CatchBlock(PredicateError, rnd)
                  /\ UNCHANGED lastResponse
             ELSE IF verdict.value
             THEN /\ lastResponse' = value
                  /\ UNCHANGED lastError
                  /\ IF Exhausted(attempt, opts.maxRetries)
                     THEN Return(FailureResult(ExhaustedResponseError(value, attempt),
                                               attempt, now))
                     ELSE Sleep(calculateDelay(attempt, opts.initialDelay, opts.maxDelay,
                                               opts.backoffMultiplier, opts.jitter, rnd))
             ELSE /\ Return(SuccessResult(value, attempt, now))
                  /\ UNCHANGED <<lastError, lastResponse>>
    ELSE /\ Return(SuccessResult(value, attempt, now))
         /\ UNCHANGED <<lastError, lastResponse>>

\* A settled fn() call counts as a retryable failure when it threw a value that
\* isRetryable accepts, or resolved with a non-ok Response that isRetryableResponse accepts.
RetryableFailure(outcome) ==
    \/ /\ outcome.kind = "throw"
       /\ isRetryable(opts.isRetryable, outcome.value) = Returned(TRUE)
    \/ /\ outcome.kind = "resolve"
       /\ instanceofResponse(outcome.value)
       /\ ~outcome.value.ok
       /\ isRetryableResponse(opts.isRetryableResponse, outcome.value) = Returned(TRUE)

Draws == IF opts.jitter THEN RandomDraws ELSE {0}

\* await fn() resolves
FnResolves ==
    /\ pc = "awaiting"
    /\ \E value \in (IF entry = "retryFetch" THEN FetchResolutions(calls) ELSE Resolutions(calls)),
          rnd \in Draws :
          /\ lastOutcome' = [kind |-> "resolve", value |-> value]
          /\ retryableFails' = IF RetryableFailure([kind |-> "resolve", value |-> value])
                               THEN retryableFails + 1 ELSE retryableFails
          /\ TryBlock(value, rnd)
    /\ UNCHANGED <<opts, entry, attempt, calls, now, fetchResult>>
    /\ UNCHANGED <<parked, normVars, edgeVars, bufferVars>>

\* await fn() rejects
FnRejects ==
    /\ pc = "awaiting"
    /\ \E error \in (IF entry = "retryFetch" THEN FetchRejections(calls) ELSE Rejections(calls)),
          rnd \in Draws :
          /\ lastOutcome' = [kind |-> "throw", value |-> error]
          /\ retryableFails' = IF RetryableFailure([kind |-> "throw", value |-> error])
                               THEN retryableFails + 1 ELSE retryableFails
          /\ CatchBlock(error, rnd)
    /\ UNCHANGED <<opts, entry, attempt, calls, lastResponse, now, fetchResult>>
    /\ UNCHANGED <<parked, normVars, edgeVars, bufferVars>>

\* await sleep(delay) resumes; attempt++ and the loop condition
SleepDone ==
    /\ pc = "sleeping"
    /\ now' = now + delays[Len(delays)]
    /\ attempt' = attempt + 1
    /\ IF LoopCondition(attempt + 1, opts.maxRetries)
       THEN pc' = "loop" /\ UNCHANGED result
       ELSE /\ pc' = "returned"
            /\ result' = FallThroughResult(lastError, opts.maxRetries, now')
    /\ UNCHANGED <<opts, entry, calls, lastError, lastResponse, lastOutcome,
                   retryableFails, delays, rejection, fetchResult>>
    /\ UNCHANGED <<parked, normVars, edgeVars, bufferVars>>

----------------------------------------------------------------------------
(* retryFetch() *)

\* retryFetch() throwing its own error instead of result.error
retryFetchSettle_OwnError(r) ==
    IF ~r.success
    THEN [kind |-> "throw", value |-> NewError(Msg_FetchFailedAfterRetries, "retryFetch")]
    ELSE IF ~Truthy(r.data)
    THEN [kind |-> "throw", value |-> NewError(Msg_NoData, "retryFetch")]
    ELSE [kind |-> "return", value |-> r.data]

\* the statements of retryFetch() after await retry(...)
retryFetchSettle(r) ==
    IF ~r.success
    THEN [kind |-> "throw",
          value |-> IF "error" \in DOMAIN r /\ Truthy(r.error) THEN r.error
                    ELSE NewError(Msg_FetchFailedAfterRetries, "retryFetch")]
    ELSE IF ~Truthy(r.data)
    THEN [kind |-> "throw", value |-> NewError(Msg_NoData, "retryFetch")]
    ELSE [kind |-> "return", value |-> r.data]

RetryFetchReturns ==
    /\ entry = "retryFetch"
    /\ fetchResult = NoValue
    /\ \/ pc = "returned" /\ fetchResult' = retryFetchSettle(result)
       \/ pc = "rejected" /\ fetchResult' = [kind |-> "throw", value |-> rejection]
    /\ UNCHANGED <<opts, entry, pc, attempt, calls, lastError, lastResponse, lastOutcome,
                   retryableFails, delays, now, result, rejection>>
    /\ UNCHANGED <<parked, normVars, edgeVars, bufferVars>>

----------------------------------------------------------------------------

Next ==
    \/ CallFn
    \/ FnResolves
    \/ FnRejects
    \/ SleepDone
    \/ RetryFetchReturns

Spec == Init /\ [][Next]_vars

----------------------------------------------------------------------------
(* Two invocations of retry() on one event loop.  The variables above hold   *)
(* the locals of the invocation whose continuation runs; parked holds the   *)
(* locals of the other one.  retry() declares every variable it writes      *)
(* inside the function, so there is nothing else to hold.                   *)

\* the locals of the invocation that is running
Locals ==
    [opts |-> opts, entry |-> entry, pc |-> pc, attempt |-> attempt, calls |-> calls,
     lastError |-> lastError, lastResponse |-> lastResponse, lastOutcome |-> lastOutcome,
     retryableFails |-> retryableFails, delays |-> delays, now |-> now,
     result |-> result, rejection |-> rejection, fetchResult |-> fetchResult]

\* both invocations with one retry, the default predicates and no jitter
InitPair ==
    /\ opts \in { o \in Options : /\ o.maxRetries = 1
                                  /\ o.isRetryable = "default"
                                  /\ o.isRetryableResponse = "default"
                                  /\ ~o.jitter /\ o.maxDelay = 150 }
    /\ entry \in {"retry", "retryFetch"}
    /\ pc = "loop"
    /\ attempt = 0
    /\ calls = 0
    /\ lastError = Undefined
    /\ lastResponse = Undefined
    /\ lastOutcome = NoOutcome
    /\ retryableFails = 0
    /\ delays = << >>
    /\ now = 0
    /\ result = NoResult
    /\ rejection = NoValue
    /\ fetchResult = NoValue
    /\ parked = [id |-> 2, locals |-> [Locals EXCEPT !.entry = "retry"]]
    /\ IdleExcept("pair")

\* the loop counter kept outside the function: one attempt shared by both invocations
Switch_SharedAttempt ==
    /\ parked # NoValue
    /\ pc # "loop"
    /\ parked' = [id |-> 3 - parked.id, locals |-> Locals]
    /\ opts' = parked.locals.opts
    /\ entry' = parked.locals.entry
    /\ pc' = parked.locals.pc
    /\ attempt' = attempt
    /\ calls' = parked.locals.calls
    /\ lastError' = parked.locals.lastError
    /\ lastResponse' = parked.locals.lastResponse
    /\ lastOutcome' = parked.locals.lastOutcome
    /\ retryableFails' = parked.locals.retryableFails
    /\ delays' = parked.locals.delays
    /\ now' = parked.locals.now
    /\ result' = parked.locals.result
    /\ rejection' = parked.locals.rejection
    /\ fetchResult' = parked.locals.fetchResult
    /\ UNCHANGED <<normVars, edgeVars, bufferVars>>

\* The running invocation is suspended at an await (or has ended) and the
\* event loop resumes the other one: each finds its own locals as it left them.
Switch ==
    /\ parked # NoValue
    /\ pc # "loop"
    /\ parked' = [id |-> 3 - parked.id, locals |-> Locals]
    /\ opts' = parked.locals.opts
    /\ entry' = parked.locals.entry
    /\ pc' = parked.locals.pc
    /\ attempt' = parked.locals.attempt
    /\ calls' = parked.locals.calls
    /\ lastError' = parked.locals.lastError
    /\ lastResponse' = parked.locals.lastResponse
    /\ lastOutcome' = parked.locals.lastOutcome
    /\ retryableFails' = parked.locals.retryableFails
    /\ delays' = parked.locals.delays
    /\ now' = parked.locals.now
    /\ result' = parked.locals.result
    /\ rejection' = parked.locals.rejection
    /\ fetchResult' = parked.locals.fetchResult
    /\ UNCHANGED <<normVars, edgeVars, bufferVars>>

NextPair ==
    \/ CallFn
    \/ FnResolves
    \/ FnRejects
    \/ SleepDone
    \/ RetryFetchReturns
    \/ Switch

SpecPair == InitPair /\ [][NextPair]_vars

\* Every call of fn() settles and every timer of sleep() fires: a step of
\* retry() that can be taken is taken.
FairSpec == Spec /\ WF_vars(Next)

----------------------------------------------------------------------------
(* Properties of retry() *)

Done == pc \in {"returned", "rejected"}

\* The most recent fn() call resolved with a value that ends the invocation in
\* success: not a Response, an ok Response, or a non-ok Response that
\* isRetryableResponse returns false for.
OperationSucceeded ==
    /\ lastOutcome.kind = "resolve"
    /\ (instanceofResponse(lastOutcome.value) /\ ~lastOutcome.value.ok)
          => isRetryableResponse(opts.isRetryableResponse, lastOutcome.value) = Returned(FALSE)

\* C1: one call of retry() invokes fn at least once and at most maxRetries + 1
\* times, and the attempts field of the returned result is a positive integer
\* equal to the number of invocations made.
C1_AttemptsCountCalls ==
    /\ calls <= opts.maxRetries + 1
    /\ Done => calls >= 1
    /\ pc = "returned" => (result.attempts = calls /\ result.attempts >= 1)

C1_Witness ==
    /\ pc = "returned"
    /\ opts.maxRetries = 2
    /\ calls = 3
    /\ result.attempts = 3

\* C2: when fn fails retryably k <= maxRetries times (thrown errors and non-ok
\* responses in any mix) and then succeeds, retry() returns success = true with
\* the data of the successful attempt and attempts = k + 1; k = 0 gives one call.
C2_SuccessAfterRetryableFailures ==
    (OperationSucceeded /\ retryableFails = calls - 1)
        => /\ pc = "returned"
           /\ result.success
           /\ result.data = lastOutcome.value
           /\ result.attempts = retryableFails + 1
           /\ calls = retryableFails + 1

C2_Witness ==
    /\ pc = "returned"
    /\ result.success
    /\ retryableFails = 2
    /\ result.attempts = 3
    /\ lastError # Undefined
    /\ lastResponse # Undefined

\* C3: when every attempt fails retryably, retry() with maxRetries = k returns
\* success = false with attempts = k + 1 after exactly k + 1 invocations of fn.
C3_FailureAfterMaxRetries ==
    /\ (Done /\ retryableFails = calls)
          => /\ pc = "returned"
             /\ ~result.success
             /\ result.attempts = opts.maxRetries + 1
             /\ calls = opts.maxRetries + 1
    /\ (retryableFails = calls /\ calls = opts.maxRetries + 1) => pc = "returned"

C3_Witness ==
    /\ pc = "returned"
    /\ retryableFails = calls
    /\ opts.maxRetries = 2
    /\ result.attempts = 3
    /\ ~result.success

\* C4: when the attempt with index n throws an error that isRetryable returns
\* false for, retry() ends at once with success = false and attempts = n + 1;
\* no delay is taken for it and fn is not invoked again, whatever maxRetries is.
C4_NonRetryableEndsAtOnce ==
    (lastOutcome.kind = "throw"
       /\ isRetryable(opts.isRetryable, lastOutcome.value) = Returned(FALSE))
        => /\ pc = "returned"
           /\ ~result.success
           /\ result.attempts = attempt + 1
           /\ calls = attempt + 1
           /\ Len(delays) = attempt

C4_Witness ==
    /\ pc = "returned"
    /\ lastOutcome.kind = "throw"
    /\ isRetryable(opts.isRetryable, lastOutcome.value) = Returned(FALSE)
    /\ attempt = 1
    /\ opts.maxRetries = 2

\* C5: a non-ok Response that isRetryableResponse does not flag ends the
\* invocation in success with that response as data and no further attempt;
\* under the default predicate a non-ok response is retried exactly when its
\* status is >= 500 or 429, every other one is returned as a success.
C5_NonRetryableResponseIsSuccess ==
    (lastOutcome.kind = "resolve" /\ instanceofResponse(lastOutcome.value)
       /\ ~lastOutcome.value.ok)
        => LET r == lastOutcome.value
               succeeded == /\ pc = "returned"
                            /\ result.success
                            /\ result.data = r
                            /\ calls = attempt + 1
                            /\ Len(delays) = attempt
           IN  /\ isRetryableResponse(opts.isRetryableResponse, r) = Returned(FALSE)
                     => succeeded
               /\ opts.isRetryableResponse = "default"
                     => IF r.status >= 500 \/ r.status = 429
                        THEN /\ ~(pc = "returned" /\ result.success)
                             /\ pc = "returned" => calls = opts.maxRetries + 1
                        ELSE succeeded

C5_Witness ==
    /\ pc = "returned"
    /\ opts.isRetryableResponse = "default"
    /\ lastOutcome.kind = "resolve"
    /\ instanceofResponse(lastOutcome.value)
    /\ lastOutcome.value.status = 404
    /\ result.success
    /\ result.data = lastOutcome.value
    /\ lastResponse # Undefined
    /\ lastResponse.status = 503


\* C6 as stated: whenever retry() returns success = false after a non-retryable
\* throw, exhausted retryable throws or exhausted retryable responses, the error
\* field is the very object the failing attempt produced.
C6_ErrorIsOriginalObject ==
    (pc = "returned" /\ ~result.success
       /\ (lastOutcome.kind = "throw" \/ RetryableFailure(lastOutcome)))
        => result.error = lastOutcome.value

\* C6 amended: a failure after a thrown Error instance carries that same object;
\* a thrown value that is no Error instance is wrapped in a new Error whose
\* message is String(value); exhausted retryable responses give a new Error
\* built by retry() from the attempt count and the status of the last response.
C6_ErrorOfFailure ==
    (pc = "returned" /\ ~result.success)
        => /\ (lastOutcome.kind = "throw" /\ instanceofError(lastOutcome.value))
                 => result.error = lastOutcome.value
           /\ (lastOutcome.kind = "throw" /\ ~instanceofError(lastOutcome.value))
                 => /\ instanceofError(result.error)
                    /\ result.error.ref[1] = "new"
                    /\ result.error.message = String(lastOutcome.value)
           /\ (lastOutcome.kind = "resolve" /\ RetryableFailure(lastOutcome))
                 => /\ instanceofError(result.error)
                    /\ result.error.ref = <<"new", "exhausted">>
                    /\ result.error.status = lastOutcome.value.status
                    /\ result.error.attempts = calls

C6_Witness ==
    /\ pc = "returned"
    /\ ~result.success
    /\ lastOutcome.kind = "throw"
    /\ instanceofError(lastOutcome.value)
    /\ result.error = lastOutcome.value
    /\ result.error.ref = <<"fn", 3>>
    /\ retryableFails = 3

\* C7: retry() never throws and never rejects, whatever fn and the
\* caller-supplied predicates do: the caller always receives a RetryResult.
C7_NeverRejects ==
    /\ pc # "rejected"
    /\ Done => result # NoResult

\* C8: retryFetch returns the raw response exactly when retry() ended in
\* success and throws the error retry() captured exactly when it ended in
\* failure; fetch has been called as many times as retry() made attempts, so
\* a fetch that always fails retryably is called maxRetries + 1 times before the throw.
C8_RetryFetch ==
    (entry = "retryFetch" /\ fetchResult # NoValue)
        => /\ Done
           /\ (fetchResult.kind = "return") <=> (pc = "returned" /\ result.success)
           /\ (fetchResult.kind = "throw") <=> ~(pc = "returned" /\ result.success)
           /\ fetchResult.kind = "return"
                 => /\ fetchResult.value = result.data
                    /\ fetchResult.value = lastOutcome.value
                    /\ instanceofResponse(fetchResult.value)
           /\ (pc = "returned" /\ ~result.success)
                 => fetchResult.value = result.error
           /\ pc = "returned" => calls = result.attempts
           /\ retryableFails = calls
                 => (fetchResult.kind = "throw" /\ calls = opts.maxRetries + 1)

C8_Witness ==
    /\ entry = "retryFetch"
    /\ fetchResult # NoValue
    /\ fetchResult.kind = "throw"
    /\ pc = "returned"
    /\ opts.maxRetries = 2
    /\ retryableFails = 3
    /\ calls = 3
    /\ lastOutcome.kind = "throw"
    /\ fetchResult.value = lastOutcome.value

\* C9: with jitter disabled the delay between attempt n and attempt n + 1 is
\* min(initialDelay * backoffMultiplier^n, maxDelay); the delays of one
\* invocation are non-decreasing and none exceeds maxDelay.
C9_BackoffDelays ==
    ~opts.jitter
        => /\ \A i \in 1..Len(delays) :
                 /\ delays[i] = Min(opts.initialDelay * Pow(opts.backoffMultiplier, i - 1),
                                    opts.maxDelay)
                 /\ delays[i] <= opts.maxDelay
           /\ \A i \in 1..(Len(delays) - 1) : delays[i] <= delays[i + 1]
           /\ pc = "sleeping" => Len(delays) = attempt + 1

C9_Witness ==
    /\ ~opts.jitter
    /\ delays = <<100, 150>>
    /\ opts.maxDelay = 150
    /\ pc = "awaiting"

Present(r, f) == f \in DOMAIN r /\ r[f] # Undefined

\* C10 as stated: in every result of retry(), data is present if and only if
\* success is true, and error is present if and only if success is false.
C10_DataIffSuccess ==
    pc = "returned"
        => /\ Present(result, "data") <=> result.success
           /\ Present(result, "error") <=> ~result.success

\* C10 amended: error is present if and only if success is false; a failure
\* result has no data; a success result carries as data the value fn resolved
\* with, which is undefined when fn resolved with undefined.
C10_ResultShape ==
    pc = "returned"
        => /\ Present(result, "error") <=> ~result.success
           /\ ~result.success => ~Present(result, "data")
           /\ result.success
                 => /\ "data" \in DOMAIN result
                    /\ result.data = lastOutcome.value
                    /\ Present(result, "data") <=> (lastOutcome.value # Undefined)

C10_Witness ==
    /\ pc = "returned"
    /\ result.success
    /\ result.data = Undefined
    /\ ~Present(result, "data")
    /\ result.attempts = 2

----------------------------------------------------------------------------
(* Meal normalization (src/src/lib/imageCompression.ts): JavaScript numbers *)
(* and strings                                                              *)

MaxStrLen == 3

\* A finite JavaScript number num / 10^scale, in lowest decimal form.
RECURSIVE Fin(_, _)
Fin(n, sc) ==
    IF sc > 0 /\ n % 10 = 0
    THEN Fin(n \div 10, sc - 1)
    ELSE [type |-> "number", kind |-> "finite", num |-> n, scale |-> sc]

NaN == [type |-> "number", kind |-> "NaN"]

PlusInfinity == [type |-> "number", kind |-> "+Infinity"]

MinusInfinity == [type |-> "number", kind |-> "-Infinity"]

Zero == Fin(0, 0)

\* a string value; chars is the tuple of its characters
Str(chars) == [type |-> "string", chars |-> chars]

\* isFinite(value) for every number
isFinite_AnyNumber(v) == TRUE

\* isFinite(value)
isFinite(v) == v.kind = "finite"

isNaN(v) == v.kind = "NaN"

\* Math.round: the nearest integer, halves towards +Infinity
MathRound(x) ==
    IF x.kind = "finite"
    THEN Fin((2 * x.num + Pow(10, x.scale)) \div (2 * Pow(10, x.scale)), 0)
    ELSE x

\* Math.max(0, x)
MathMax0(x) ==
    CASE x.kind = "finite" -> IF x.num < 0 THEN Zero ELSE x
      [] x.kind = "NaN" -> NaN
      [] x.kind = "+Infinity" -> PlusInfinity
      [] x.kind = "-Infinity" -> Zero

\* the lower endpoint instead of the midpoint
Midpoint_LowerEndpoint(a, b) == a

\* (a + b) / 2, a and b not negative and not NaN
Midpoint(a, b) ==
    IF isFinite(a) /\ isFinite(b)
    THEN LET sc == Max(a.scale, b.scale)
             sum == a.num * Pow(10, sc - a.scale) + b.num * Pow(10, sc - b.scale)
         IN  Fin(sum * 5, sc + 1)
    ELSE PlusInfinity

Digits == {"0", "1", "2", "3", "4", "5", "6", "7", "8", "9"}

DigitValue(ch) ==
    CASE ch = "0" -> 0 [] ch = "1" -> 1 [] ch = "2" -> 2 [] ch = "3" -> 3 [] ch = "4" -> 4
      [] ch = "5" -> 5 [] ch = "6" -> 6 [] ch = "7" -> 7 [] ch = "8" -> 8 [] ch = "9" -> 9

RECURSIVE DigitsValue(_)
DigitsValue(ds) ==
    IF ds = << >> THEN 0
    ELSE DigitsValue(SubSeq(ds, 1, Len(ds) - 1)) * 10 + DigitValue(ds[Len(ds)])

\* the integer part of the largest double, 2^1024 - 2^970, has 309 digits
MaxDoubleDigits == 309

RECURSIVE StripZeros(_)
StripZeros(ds) == IF ds # << >> /\ ds[1] = "0" THEN StripZeros(Tail(ds)) ELSE ds

\* Number(m) for a string m of the form [-+]?[0-9]*\.?[0-9]+: the decimal it
\* spells, and an infinity when its integer part has more digits than any
\* double
NumberOf(m) ==
    LET signed == m[1] \in {"-", "+"}
        body == IF signed THEN Tail(m) ELSE m
        dots == {k \in 1..Len(body) : body[k] = "."}
        dot == IF dots = {} THEN Len(body) + 1 ELSE CHOOSE k \in dots : TRUE
        int == SubSeq(body, 1, dot - 1)
        frac == SubSeq(body, dot + 1, Len(body))
        magnitude == DigitsValue(int \o frac)
    IN  IF Len(StripZeros(int)) > MaxDoubleDigits
        THEN IF m[1] = "-" THEN MinusInfinity ELSE PlusInfinity
        ELSE Fin(IF m[1] = "-" THEN 0 - magnitude ELSE magnitude, Len(frac))

\* the characters \s matches
WhiteSpace == {" ", "\t", "\n"}

\* value.replace(/,/g, '.') left out
ReplaceCommas_None(chars) == chars

\* value.replace(/,/g, '.')
ReplaceCommas(chars) ==
    [k \in 1..Len(chars) |-> IF chars[k] = "," THEN "." ELSE chars[k]]

\* String.prototype.trim
RECURSIVE Trim(_)
Trim(chars) ==
    IF chars = << >> THEN chars
    ELSE IF chars[1] \in WhiteSpace THEN Trim(Tail(chars))
    ELSE IF chars[Len(chars)] \in WhiteSpace THEN Trim(SubSeq(chars, 1, Len(chars) - 1))
    ELSE chars

----------------------------------------------------------------------------
(* Regular expressions: a backtracking matcher.  Run matches a list of       *)
(* patterns one after the other from a position and gives the first way to   *)
(* do so in the order a backtracking engine tries them: a greedy repetition  *)
(* takes as much as the patterns after it allow.                             *)

\* the characters a pattern character matches under the i flag
CaseVariants(ch) ==
    LET lower == <<"a","b","c","d","e","f","g","h","i","j","k","l","m",
                   "n","o","p","q","r","s","t","u","v","w","x","y","z">>
        upper == <<"A","B","C","D","E","F","G","H","I","J","K","L","M",
                   "N","O","P","Q","R","S","T","U","V","W","X","Y","Z">>
    IN  {ch} \cup { lower[k] : k \in { j \in 1..26 : upper[j] = ch } }
             \cup { upper[k] : k \in { j \in 1..26 : lower[j] = ch } }

ReSet(chars) == [t |-> "set", chars |-> chars]

ReSeq(items) == [t |-> "seq", items |-> items]

ReAlt(items) == [t |-> "alt", items |-> items]

\* greedy repetition, max = -1 for no upper limit
ReRep(item, min, max) == [t |-> "rep", item |-> item, min |-> min, max |-> max]

ReCap(idx, item) == [t |-> "cap", idx |-> idx, item |-> item]

\* a literal under the i flag
ReLit(str) == ReSeq([k \in 1..Len(str) |-> ReSet(CaseVariants(str[k]))])

NoCaps == << <<0, 0>>, <<0, 0>> >>

NoMatch == [found |-> FALSE]

Least(S) == CHOOSE x \in S : \A y \in S : x <= y

Greatest(S) == CHOOSE x \in S : \A y \in S : y <= x

\* how many characters from position i on are in chars
RunLength(str, i, chars) ==
    LET stop == CHOOSE j \in i..(Len(str) + 1) :
                    /\ j = Len(str) + 1 \/ str[j] \notin chars
                    /\ \A k \in i..(j - 1) : str[k] \in chars
    IN  stop - i

RECURSIVE Run(_, _, _, _)
RECURSIVE RunAlt(_, _, _, _, _, _)
RECURSIVE RunSetRep(_, _, _, _, _)
RECURSIVE RunRep(_, _, _, _, _)

Run(todo, str, i, c) ==
    IF todo = << >> THEN [found |-> TRUE, end |-> i, caps |-> c]
    ELSE CASE todo[1].t = "set" ->
                 IF i <= Len(str) /\ str[i] \in todo[1].chars
                 THEN Run(Tail(todo), str, i + 1, c)
                 ELSE NoMatch
           [] todo[1].t = "seq" -> Run(todo[1].items \o Tail(todo), str, i, c)
           [] todo[1].t = "alt" -> RunAlt(todo[1].items, 1, Tail(todo), str, i, c)
           [] todo[1].t = "rep" ->
                 IF todo[1].item.t = "set"
                 THEN RunSetRep(todo[1], Tail(todo), str, i, c)
                 ELSE RunRep(todo[1], Tail(todo), str, i, c)
           [] todo[1].t = "cap" ->
                 Run(<< todo[1].item, [t |-> "capEnd", idx |-> todo[1].idx, from |-> i] >>
                        \o Tail(todo), str, i, c)
           [] todo[1].t = "capEnd" ->
                 Run(Tail(todo), str, i, [c EXCEPT ![todo[1].idx] = <<todo[1].from, i>>])
           [] todo[1].t = "progress" ->
                 IF i > todo[1].from THEN Run(Tail(todo), str, i, c) ELSE NoMatch

\* the alternatives from the k-th on, in their order
RunAlt(items, k, rest, str, i, c) ==
    IF k > Len(items) THEN NoMatch
    ELSE LET m == Run(<< items[k] >> \o rest, str, i, c)
         IN  IF m.found THEN m ELSE RunAlt(items, k + 1, rest, str, i, c)

\* a greedy repetition of a character set: the longest run the rest allows
RunSetRep(r, rest, str, i, c) ==
    LET run == RunLength(str, i, r.item.chars)
        most == IF r.max = -1 THEN run ELSE Min(run, r.max)
        ways == { w \in { <<n, Run(rest, str, i + n, c)>> : n \in r.min..most } : w[2].found }
    IN  IF ways = {} THEN NoMatch
        ELSE (CHOOSE w \in ways : \A v \in ways : v[1] <= w[1])[2]

\* a greedy repetition of another pattern: once more if the rest allows it
RunRep(r, rest, str, i, c) ==
    LET oneLess == [r EXCEPT !.min = IF @ = 0 THEN 0 ELSE @ - 1,
                             !.max = IF @ = -1 THEN -1 ELSE @ - 1]
        more == IF r.max = 0 THEN NoMatch
                ELSE Run(<< r.item, [t |-> "progress", from |-> i], oneLess >> \o rest,
                         str, i, c)
    IN  IF more.found THEN more
        ELSE IF r.min = 0 THEN Run(rest, str, i, c) ELSE NoMatch

\* String.prototype.match for a pattern without the g flag: the leftmost match
StringMatch(str, r) ==
    LET none == Len(str) + 2
        start == CHOOSE p \in 1..none :
                    /\ p = none \/ Run(<< r >>, str, p, NoCaps).found
                    /\ \A q \in 1..(p - 1) : ~Run(<< r >>, str, q, NoCaps).found
        m == Run(<< r >>, str, start, NoCaps)
    IN  IF start = none THEN NoMatch
        ELSE [found |-> TRUE, start |-> start, end |-> m.end, caps |-> m.caps]

\* m[0]
Matched(str, m) == SubSeq(str, m.start, m.end - 1)

\* m[k]
Group(str, m, k) == SubSeq(str, m.caps[k][1], m.caps[k][2] - 1)

ReDigit == ReSet(Digits)

ReSpaces == ReRep(ReSet(WhiteSpace), 0, -1)

\* [0-9]+(?:\.[0-9]+)?
ReUnsignedNumber ==
    ReSeq(<< ReRep(ReDigit, 1, -1),
             ReRep(ReSeq(<< ReSet({"."}), ReRep(ReDigit, 1, -1) >>), 0, 1) >>)

\* (?:-|U+2013|U+2014|to)
ReRangeSeparator ==
    ReAlt(<< ReSet({"-"}), ReSet({"U+2013"}), ReSet({"U+2014"}), ReLit(<<"t", "o">>) >>)

\* /([0-9]+(?:\.[0-9]+)?)\s*(?:-|U+2013|U+2014|to)\s*([0-9]+(?:\.[0-9]+)?)/i
RangeRegex ==
    ReSeq(<< ReCap(1, ReUnsignedNumber), ReSpaces, ReRangeSeparator, ReSpaces,
             ReCap(2, ReUnsignedNumber) >>)

\* /[-+]?[0-9]*\.?[0-9]+/
FirstNumberRegex ==
    ReSeq(<< ReRep(ReSet({"-", "+"}), 0, 1), ReRep(ReDigit, 0, -1),
             ReRep(ReSet({"."}), 0, 1), ReRep(ReDigit, 1, -1) >>)

----------------------------------------------------------------------------
(* parseNutritionNumber and parseNumber *)

parseNutritionNumber(value) ==
    IF value.type \in {"null", "undefined"} THEN Zero
    ELSE IF value.type = "number" /\ isFinite(value) THEN MathMax0(MathRound(value))
    ELSE IF value.type = "string"
    THEN LET str == Trim(ReplaceCommas(value.chars))
             rangeMatch == StringMatch(str, RangeRegex)
             m == StringMatch(str, FirstNumberRegex)
         IN  IF rangeMatch.found
                  /\ ~isNaN(NumberOf(Group(str, rangeMatch, 1)))
                  /\ ~isNaN(NumberOf(Group(str, rangeMatch, 2)))
             THEN MathMax0(MathRound(Midpoint(NumberOf(Group(str, rangeMatch, 1)),
                                              NumberOf(Group(str, rangeMatch, 2)))))
             ELSE IF m.found
             THEN MathMax0(MathRound(NumberOf(Matched(str, m))))
             ELSE Zero
    ELSE Zero

\* parseNumber matching the string as it is, commas included
parseNumber_KeepsCommas(value) ==
    IF value.type \in {"null", "undefined"} THEN Zero
    ELSE IF value.type = "number" /\ isFinite(value) THEN MathMax0(MathRound(value))
    ELSE IF value.type = "string"
    THEN LET m == StringMatch(value.chars, FirstNumberRegex)
         IN  IF m.found THEN MathMax0(MathRound(NumberOf(Matched(value.chars, m)))) ELSE Zero
    ELSE Zero

parseNumber(value) ==
    IF value.type \in {"null", "undefined"} THEN Zero
    ELSE IF value.type = "number" /\ isFinite(value) THEN MathMax0(MathRound(value))
    ELSE IF value.type = "string"
    THEN LET str == ReplaceCommas(value.chars)
             m == StringMatch(str, FirstNumberRegex)
         IN  IF m.found THEN MathMax0(MathRound(NumberOf(Matched(str, m)))) ELSE Zero
    ELSE Zero

----------------------------------------------------------------------------
(* Inputs of the parsing functions *)

\* the characters of the exhaustively enumerated strings
StringAlphabet == {"1", "2", "5", ".", ",", "-", "+", " ", "t", "o", "g"}

ShortStrings == UNION { [1..k -> StringAlphabet] : k \in 0..MaxStrLen }

\* a number beyond the doubles: 310 nines
LongDigits == [k \in 1..(MaxDoubleDigits + 1) |-> "9"]

ExampleStrings ==
    { <<"2","0","0","-","3","0","0">>,
      <<"5","0"," ","t","o"," ","1","0","0">>,
      <<"1","0","0"," ","U+2013"," ","2","0","0">>,
      <<"1","0","0"," ","U+2014"," ","2","0","0">>,
      <<"5","0"," ","T","O"," ","1","0","0">>,
      <<"1","0","0",",","5">>,
      <<"1","2","3",",","4","5">>,
      <<"1","2","3",".","4","5">>,
      <<"1","0","0"," ","k","c","a","l">>,
      <<"~","5","0","g">>,
      <<"2","0","0"," ","c","a","l","o","r","i","e","s">>,
      <<"-","5","0">>,
      <<"i","n","v","a","l","i","d">>,
      <<"1","0","0">>,
      <<"0">>,
      <<"5"," ","o","r"," ","1","0","-","2","0">>,
      <<"1",",","5","-","2",",","5">>,
      <<"2","0","2","4","-","0","1","-","1","5">>,
      <<"\t","7"," ","\n">>,
      <<"1","t","o","2">>,
      <<"1"," ","-"," ","2">>,
      <<"1",".","5","-","2">>,
      <<"-","1","-","2">>,
      <<".","5","-","1">>,
      <<"+","5">>,
      <<"1","-","2"," ","t","o"," ","5">>,
      <<"1","2",".","5","g">>,
      <<"-","0",".","4"," ","k","g">>,
      <<"1",".",".","5">>,
      <<"5","-">>,
      <<"t","o"," ","5">>,
      <<"3",",","5"," ","t","o"," ","4">>,
      <<"0",".","5">> }

NumberInputs ==
    { Fin(0, 0), Fin(100, 0), Fin(12345, 2), Fin(-10, 0), Fin(5, 1), Fin(-5, 1),
      Fin(25, 1), Fin(-15, 1), Fin(49, 2), NaN, PlusInfinity, MinusInfinity }

\* null, undefined, numbers, strings, and values of other types
ParseInputs ==
    {Null, Undefined} \cup NumberInputs
        \cup { [type |-> "boolean", value |-> TRUE], [type |-> "object"] }
        \cup { Str(chars) : chars \in ShortStrings \cup ExampleStrings }

----------------------------------------------------------------------------
(* normalizeNutritionData *)

MaxPresentKeys == 2

\* the aliases of each field, in the order they are read
FieldAliases ==
    [ calories |-> <<"calories", "kalori", "total_calories", "estimasi_kalori">>,
      protein |-> <<"protein", "protein_g", "protein_grams", "protein_gram">>,
      carbs |-> <<"carbs", "karbohidrat", "karbohidrat_g", "carbs_grams", "carbs_g">>,
      fat |-> <<"fat", "lemak", "lemak_g", "fat_grams", "fat_g">>,
      fiber |-> <<"fiber", "serat", "fiber_g">> ]

AllAliases ==
    UNION { { FieldAliases[f][k] : k \in DOMAIN FieldAliases[f] } : f \in DOMAIN FieldAliases }

\* raw.key: undefined when raw has no such property
Get(raw, key) == IF key \in DOMAIN raw THEN raw[key] ELSE Undefined

\* only undefined counts as missing
Nullish_OnlyUndefined(v) == v = Undefined

\* v is null or undefined
Nullish(v) == v \in {Null, Undefined}

\* raw.k1 ?? raw.k2 ?? ... ?? raw.kn
RECURSIVE Coalesce(_, _)
Coalesce(raw, keys) ==
    IF Len(keys) = 1 \/ ~Nullish(Get(raw, keys[1]))
    THEN Get(raw, keys[1])
    ELSE Coalesce(raw, Tail(keys))

normalizeNutritionData(raw) ==
    [ calories |-> parseNutritionNumber(Coalesce(raw, FieldAliases.calories)),
      protein |-> parseNutritionNumber(Coalesce(raw, FieldAliases.protein)),
      carbs |-> parseNutritionNumber(Coalesce(raw, FieldAliases.carbs)),
      fat |-> parseNutritionNumber(Coalesce(raw, FieldAliases.fat)),
      fiber |-> parseNutritionNumber(Coalesce(raw, FieldAliases.fiber)) ]

\* the values of the properties of the enumerated records
RawValues == { Undefined, Null, Fin(7, 0), Str(<<"2", "0", ",", "5", "g">>) }

\* the records of the analysis tests, and one with every alias of a field
ExampleRaws ==
    { [calories |-> Fin(200, 0), protein |-> Fin(20, 0), carbs |-> Fin(30, 0), fat |-> Fin(10, 0)],
      [kalori |-> Fin(200, 0), protein_g |-> Fin(20, 0), karbohidrat |-> Fin(30, 0),
       lemak |-> Fin(10, 0)],
      [calories |-> Str(<<"2","0","0"," ","k","c","a","l">>), protein |-> Str(<<"2","0","g">>),
       carbs |-> Str(<<"3","0","g">>), fat |-> Str(<<"1","0","g">>)],
      [kalori |-> Str(<<"2","0","0","-","3","0","0">>), protein_g |-> Str(<<"2","0",",","5">>),
       karbohidrat |-> Fin(-30, 0), lemak |-> Fin(105, 1), serat |-> Fin(5, 0)],
      [calories |-> Fin(200, 0), protein |-> Fin(20, 0), carbs |-> Fin(30, 0), fat |-> Fin(10, 0),
       fiber |-> Fin(5, 0)],
      [calories |-> Null, kalori |-> Undefined, total_calories |-> Fin(150, 0),
       estimasi_kalori |-> Fin(900, 0), carbs |-> Null, karbohidrat |-> Null,
       karbohidrat_g |-> Null, carbs_grams |-> Null, carbs_g |-> Null],
      [calories |-> Fin(0, 0), kalori |-> Fin(200, 0), fat |-> Str(<<"i","n","v","a","l","i","d">>),
       lemak |-> Fin(9, 0)] }

\* the records over at most MaxPresentKeys aliases of one field, and over
\* any two aliases, and the example records
RawInputs ==
    UNION { [K -> RawValues] :
              K \in UNION { { S \in SUBSET { FieldAliases[f][k] : k \in DOMAIN FieldAliases[f] } :
                                Cardinality(S) <= MaxPresentKeys } : f \in DOMAIN FieldAliases }
                      \cup { {a, b} : a \in AllAliases, b \in AllAliases } }
        \cup ExampleRaws

----------------------------------------------------------------------------
(* extractNutritionFromText *)

MaxTextTokens == 2

\* [0-9]{1,4}(?:[.,][0-9]+)?
ReTextNumber ==
    ReSeq(<< ReRep(ReDigit, 1, 4),
             ReRep(ReSeq(<< ReSet({".", ","}), ReRep(ReDigit, 1, -1) >>), 0, 1) >>)

\* ([0-9]{1,4}(?:[.,][0-9]+)?(?:\s*(?:-|U+2013|U+2014|to)\s*[0-9]{1,4}(?:[.,][0-9]+)?)?)
ReNumberOrRange ==
    ReCap(1, ReSeq(<< ReTextNumber,
                      ReRep(ReSeq(<< ReSpaces, ReRangeSeparator, ReSpaces, ReTextNumber >>),
                            0, 1) >>))

\* new RegExp(key + "\s*[:-]?\s*(number or range)", 'i')
KeywordRegex(key) ==
    ReSeq(<< ReLit(key), ReSpaces, ReRep(ReSet({":", "-"}), 0, 1), ReSpaces, ReNumberOrRange >>)

\* new RegExp("(number or range)\s*(?:" + keys.join('|') + ")", 'i')
UnitRegex(keys) ==
    ReSeq(<< ReNumberOrRange, ReSpaces, ReAlt([k \in 1..Len(keys) |-> ReLit(keys[k])]) >>)

\* m && m[1]
Captured(text, m) == m.found /\ Group(text, m, 1) # << >>

\* the unit-first pattern
searchUnitFirst(text, keys) ==
    IF Captured(text, StringMatch(text, UnitRegex(keys)))
    THEN parseNutritionNumber(Str(Group(text, StringMatch(text, UnitRegex(keys)), 1)))
    ELSE Null

\* for (const key of keys), from the k-th key on, then the unit-first pattern
RECURSIVE searchFromKey(_, _, _)
searchFromKey(text, keys, k) ==
    IF k > Len(keys) THEN searchUnitFirst(text, keys)
    ELSE IF Captured(text, StringMatch(text, KeywordRegex(keys[k])))
    THEN parseNutritionNumber(Str(Group(text, StringMatch(text, KeywordRegex(keys[k])), 1)))
    ELSE searchFromKey(text, keys, k + 1)

\* searchNumber trying the unit-first pattern before the keywords
searchNumber_UnitFirst(text, keys) ==
    IF searchUnitFirst(text, keys) # Null THEN searchUnitFirst(text, keys)
    ELSE searchFromKey(text, keys, 1)

searchNumber(text, keys) == searchFromKey(text, keys, 1)

\* x ?? 0
OrZero(x) == IF Nullish(x) THEN Zero ELSE x

\* the keywords of each nutrient, in the order they are tried
TextKeywords ==
    [ calories |-> << <<"c","a","l","o","r","i","e","s">>, <<"k","a","l","o","r","i">>, <<"k","c","a","l">> >>,
      protein |-> << <<"p","r","o","t","e","i","n">>, <<"p","r","o","t","e","i","n","_","g">>, <<"p","r","o","t","e","i","n","g","r","a","m","s">> >>,
      carbs |-> << <<"c","a","r","b","s">>, <<"c","a","r","b","o","h","y","d","r","a","t","e">>, <<"k","a","r","b","o","h","i","d","r","a","t">>, <<"c","a","r","b","s","_","g">> >>,
      fat |-> << <<"f","a","t">>, <<"l","e","m","a","k">>, <<"f","a","t","_","g">> >> ]

extractNutritionFromText(text) ==
    [ calories |-> OrZero(searchNumber(text, TextKeywords.calories)),
      protein |-> OrZero(searchNumber(text, TextKeywords.protein)),
      carbs |-> OrZero(searchNumber(text, TextKeywords.carbs)),
      fat |-> OrZero(searchNumber(text, TextKeywords.fat)) ]

\* the pieces of the enumerated texts
TextTokens ==
    { <<"C","a","l","o","r","i","e","s",":"," ">>,
      <<"k","c","a","l"," ">>,
      <<"k","a","l","o","r","i">>,
      <<"P","r","o","t","e","i","n"," ">>,
      <<"p","r","o","t","e","i","n","_","g","-">>,
      <<"f","a","t",":"," ">>,
      <<"c","a","r","b","s">>,
      <<"2","0","0"," ">>,
      <<"2","0",",","5","g"," ">>,
      <<"1","0"," ","t","o"," ","2","0"," ">>,
      <<"1","2","3","4","5">>,
      <<"l","e","m","a","k"," ","="," ">> }

\* the texts of at most n pieces
RECURSIVE TokenTexts(_)
TokenTexts(n) ==
    IF n = 0 THEN { << >> }
    ELSE TokenTexts(n - 1) \cup { t \o tok : t \in TokenTexts(n - 1), tok \in TextTokens }

ExampleTexts ==
    { <<"C","a","l","o","r","i","e","s",":"," ","2","0","0",","," ","P","r","o","t","e","i","n",":"," ","2","0","g",","," ","C","a","r","b","s",":"," ","3","0","g",","," ","F","a","t",":"," ","1","0","g">>,
      <<"K","a","l","o","r","i",":"," ","2","0","0",","," ","P","r","o","t","e","i","n",":"," ","2","0","g",","," ","K","a","r","b","o","h","i","d","r","a","t",":"," ","3","0","g",","," ","L","e","m","a","k",":"," ","1","0","g">>,
      <<"C","a","l","o","r","i","e","s",":"," ","2","0","0","-","3","0","0"," ","k","c","a","l">>,
      <<"N","o"," ","n","u","t","r","i","t","i","o","n"," ","i","n","f","o"," ","h","e","r","e">>,
      <<"1","0","0"," ","k","c","a","l",","," ","c","a","l","o","r","i","e","s",":"," ","2","0","0">>,
      <<"k","c","a","l",":"," ","1","0","0",","," ","c","a","l","o","r","i","e","s",":"," ","2","0","0">>,
      <<"2","0","0"," ","k","c","a","l">>,
      <<"5","0","g"," ","p","r","o","t","e","i","n",","," ","3","0"," ","t","o"," ","4","0"," ","c","a","r","b","s","_","g">>,
      <<"p","r","o","t","e","i","n","_","g",":"," ","2","0",","," ","c","a","r","b","o","h","y","d","r","a","t","e","s",":"," ","3","0",","," ","c","a","r","b","o","h","y","d","r","a","t","e"," ","3","1">>,
      <<"F","A","T","-","1","2","3","4","5",",","5"," ","l","e","m","a","k"," ","7">>,
      <<"c","a","l","o","r","i","e","s"," ","a","b","o","u","t"," ","9","0",","," ","8","0"," ","K","a","l","o","r","i">> }

TextInputs == TokenTexts(MaxTextTokens) \cup ExampleTexts

----------------------------------------------------------------------------
(* isNutritionEmpty and mergeNutrition *)

NutritionFields == {"calories", "protein", "carbs", "fat", "fiber"}

\* the NormalizedNutrition records whose fields are 0 or v, fiber optional
NutritionRecords(v) ==
    [ {"calories", "protein", "carbs", "fat"} -> {Zero, v} ]
        \cup [ NutritionFields -> {Zero, v} ]

\* isNutritionEmpty looking at fiber as well
isNutritionEmpty_WithFiber(n) ==
    [ type |-> "boolean",
      value |-> /\ n.calories = Zero /\ n.protein = Zero /\ n.carbs = Zero /\ n.fat = Zero
                /\ Get(n, "fiber") = Zero ]

isNutritionEmpty(n) ==
    [ type |-> "boolean",
      value |-> n.calories = Zero /\ n.protein = Zero /\ n.carbs = Zero /\ n.fat = Zero ]

\* the falsy values among numbers, null and undefined
Falsy(v) == v \in {Undefined, Null, Zero, NaN}

\* a ?? b in the place of a || b
LogicalOr_Nullish(a, b) == IF Nullish(a) THEN b ELSE a

\* a || b
LogicalOr(a, b) == IF Falsy(a) THEN b ELSE a

mergeNutrition(primary, fallback) ==
    [ calories |-> LogicalOr(primary.calories, fallback.calories),
      protein |-> LogicalOr(primary.protein, fallback.protein),
      carbs |-> LogicalOr(primary.carbs, fallback.carbs),
      fat |-> LogicalOr(primary.fat, fallback.fat),
      fiber |-> LogicalOr(Get(primary, "fiber"), Get(fallback, "fiber")) ]

PrimaryRecords == NutritionRecords(Fin(7, 0))

FallbackRecords == NutritionRecords(Fin(9, 0))

----------------------------------------------------------------------------
(* RetryPresets *)

\* standard with the retries of aggressive
RetryPresets_StandardFive ==
    [ quick |-> [maxRetries |-> 2, initialDelay |-> 1000, maxDelay |-> 3000,
                 backoffMultiplier |-> 2],
      standard |-> [maxRetries |-> 5, initialDelay |-> 1000, maxDelay |-> 10000,
                    backoffMultiplier |-> 2],
      aggressive |-> [maxRetries |-> 5, initialDelay |-> 500, maxDelay |-> 15000,
                      backoffMultiplier |-> 2],
      conservative |-> [maxRetries |-> 2, initialDelay |-> 2000, maxDelay |-> 8000,
                        backoffMultiplier |-> 2] ]

RetryPresets ==
    [ quick |-> [maxRetries |-> 2, initialDelay |-> 1000, maxDelay |-> 3000,
                 backoffMultiplier |-> 2],
      standard |-> [maxRetries |-> 3, initialDelay |-> 1000, maxDelay |-> 10000,
                    backoffMultiplier |-> 2],
      aggressive |-> [maxRetries |-> 5, initialDelay |-> 500, maxDelay |-> 15000,
                      backoffMultiplier |-> 2],
      conservative |-> [maxRetries |-> 2, initialDelay |-> 2000, maxDelay |-> 8000,
                        backoffMultiplier |-> 2] ]

----------------------------------------------------------------------------
(* The normalizer's functions, each called once on an input, and the       *)
(* presets, each read once                                                  *)

\* the calls: the function and its arguments, or the preset read
NormCalls ==
    { [fn |-> "parseNutritionNumber", arg |-> v] : v \in ParseInputs \cup {Str(LongDigits)} }
        \cup { [fn |-> "parseNumber", arg |-> v] : v \in ParseInputs }
        \cup { [fn |-> "normalizeNutritionData", raw |-> r] : r \in RawInputs }
        \cup { [fn |-> "extractNutritionFromText", text |-> t] : t \in TextInputs }
        \cup { [fn |-> "isNutritionEmpty", n |-> r] : r \in PrimaryRecords }
        \cup { [fn |-> "mergeNutrition", primary |-> pf[1], fallback |-> pf[2]] :
                 pf \in { x \in PrimaryRecords \X (PrimaryRecords \cup FallbackRecords) :
                            x[2] \in FallbackRecords \/ x[2] = x[1] } }
        \cup { [fn |-> "RetryPresets", name |-> n] :
                 n \in {"quick", "standard", "aggressive", "conservative"} }
        \cup { [fn |-> "analyzeFoodImage", response |-> r, user |-> u] :
                 r \in [{"calories", "carbs", "protein", "fat"} -> RawValues]
                          \cup ExampleRaws \cup {Undefined},
                 u \in {"user", "none", "throws"} }

InitNorm ==
    /\ IdleExcept("norm")
    /\ normCall \in NormCalls
    /\ normReturn = NoValue
    /\ user_meals = << >>

ParseNutritionNumberCall ==
    /\ normCall.fn = "parseNutritionNumber"
    /\ normReturn = NoValue
    /\ normReturn' = parseNutritionNumber(normCall.arg)
    /\ UNCHANGED <<normCall, user_meals>>
    /\ UNCHANGED <<retryVars, edgeVars, bufferVars>>

ParseNumberCall ==
    /\ normCall.fn = "parseNumber"
    /\ normReturn = NoValue
    /\ normReturn' = parseNumber(normCall.arg)
    /\ UNCHANGED <<normCall, user_meals>>
    /\ UNCHANGED <<retryVars, edgeVars, bufferVars>>

NormalizeNutritionDataCall ==
    /\ normCall.fn = "normalizeNutritionData"
    /\ normReturn = NoValue
    /\ normReturn' = normalizeNutritionData(normCall.raw)
    /\ UNCHANGED <<normCall, user_meals>>
    /\ UNCHANGED <<retryVars, edgeVars, bufferVars>>

ExtractNutritionFromTextCall ==
    /\ normCall.fn = "extractNutritionFromText"
    /\ normReturn = NoValue
    /\ normReturn' = extractNutritionFromText(normCall.text)
    /\ UNCHANGED <<normCall, user_meals>>
    /\ UNCHANGED <<retryVars, edgeVars, bufferVars>>

IsNutritionEmptyCall ==
    /\ normCall.fn = "isNutritionEmpty"
    /\ normReturn = NoValue
    /\ normReturn' = isNutritionEmpty(normCall.n)
    /\ UNCHANGED <<normCall, user_meals>>
    /\ UNCHANGED <<retryVars, edgeVars, bufferVars>>

MergeNutritionCall ==
    /\ normCall.fn = "mergeNutrition"
    /\ normReturn = NoValue
    /\ normReturn' = mergeNutrition(normCall.primary, normCall.fallback)
    /\ UNCHANGED <<normCall, user_meals>>
    /\ UNCHANGED <<retryVars, edgeVars, bufferVars>>

\* reading a preset: undefined when RetryPresets has no such property
RetryPresetsRead ==
    /\ normCall.fn = "RetryPresets"
    /\ normReturn = NoValue
    /\ normReturn' = Get(RetryPresets, normCall.name)
    /\ UNCHANGED <<normCall, user_meals>>
    /\ UNCHANGED <<retryVars, edgeVars, bufferVars>>

\* analyzeFoodImage (src/src/lib/aiAnalysis.ts) from the AI response on: the
\* meal it returns and the rows it sends to user_meals.  response is the
\* object taken from the edge function's answer, undefined when there is
\* none; user is what supabase.auth.getUser() gives.
analyzeFoodImage_SavesEmpty(response, user) ==
    CHOOSE done \in
        { [ result |-> normalized,
            inserts |-> IF user = "user"
                        THEN << [user_id |-> user, calories |-> normalized.calories,
                                 carbs |-> normalized.carbs,
                                 protein |-> normalized.protein] >>
                        ELSE << >> ] :
          normalized \in { nutritionData @@ [aiMode |-> "openai-vision"] :
                             nutritionData \in {normalizeNutritionData(response)} } } : TRUE

\* the meal built from the normalized nutrition data, and the row sent to
\* user_meals unless there is no user or the four macros are all zero
analyzeFoodImage(response, user) ==
    IF response = Undefined
    THEN \* thrown before the normalization, caught by the outer catch
         [ result |-> [calories |-> Zero, protein |-> Zero, carbs |-> Zero, fat |-> Zero,
                       fiber |-> Zero, aiMode |-> "error-fallback"],
           inserts |-> << >> ]
    ELSE CHOOSE done \in
             { [ result |-> normalized,
                 inserts |->
                     IF user # "user" THEN << >>
                     ELSE IF /\ normalized.calories = Zero /\ normalized.carbs = Zero
                             /\ normalized.protein = Zero /\ normalized.fat = Zero
                     THEN << >>
                     ELSE << [user_id |-> user,
                              calories |-> LogicalOr_Nullish(normalized.calories, Zero),
                              carbs |-> LogicalOr_Nullish(normalized.carbs, Zero),
                              protein |-> LogicalOr_Nullish(normalized.protein, Zero)] >> ] :
               normalized \in
                   { [nutritionData EXCEPT !.fiber = LogicalOr_Nullish(@, Zero)]
                         @@ [aiMode |-> "openai-vision"] :
                     nutritionData \in {normalizeNutritionData(response)} } } : TRUE

AnalyzeFoodImageCall ==
    /\ normCall.fn = "analyzeFoodImage"
    /\ normReturn = NoValue
    /\ \E done \in {analyzeFoodImage(normCall.response, normCall.user)} :
          /\ normReturn' = done.result
          /\ user_meals' = user_meals \o done.inserts
    /\ UNCHANGED normCall
    /\ UNCHANGED <<retryVars, edgeVars, bufferVars>>

NextNorm ==
    \/ AnalyzeFoodImageCall
    \/ ParseNutritionNumberCall
    \/ ParseNumberCall
    \/ NormalizeNutritionDataCall
    \/ ExtractNutritionFromTextCall
    \/ IsNutritionEmptyCall
    \/ MergeNutritionCall
    \/ RetryPresetsRead

SpecNorm == InitNorm /\ [][NextNorm]_vars

----------------------------------------------------------------------------
(* Properties of the normalizer *)

\* the call of the named function has returned
Called(fn) == normCall.fn = fn /\ normReturn # NoValue

\* C11: parseNutritionNumber returns, for every input (a number, negative,
\* fractional, NaN or infinite, a string of any content, null, undefined or a
\* value of another type), and what it returns is a non-negative integer.
C11_NonNegativeInteger ==
    Called("parseNutritionNumber")
          => /\ normReturn.type = "number"
             /\ normReturn.kind = "finite"
             /\ normReturn.scale = 0
             /\ normReturn.num >= 0

\* C12: parseNutritionNumber returns 0 for null, for undefined, for NaN,
\* +Infinity and -Infinity, for the empty string and for every string that
\* contains no digit.
HasDigit(chars) == \E k \in 1..Len(chars) : chars[k] \in Digits

C12_ZeroForNothingToParse ==
    (/\ Called("parseNutritionNumber")
     /\ \/ normCall.arg \in {Null, Undefined, NaN, PlusInfinity, MinusInfinity}
        \/ normCall.arg.type = "string" /\ ~HasDigit(normCall.arg.chars))
        => normReturn = Zero

\* parseNutritionNumber(+Infinity) has returned 0
C12_Witness ==
    /\ Called("parseNutritionNumber")
    /\ normCall.arg = PlusInfinity
    /\ normReturn = Zero

\* What the claims say of strings, read off the characters of the input: a
\* decimal mark is a period or a comma.
DecimalMarks == {".", ","}

IsDigitChar(ch) == ch \in Digits

IsDigitRun(chars, i, j) == i < j /\ \A k \in i..(j - 1) : chars[k] \in Digits

AllWhite(chars, i, j) == \A k \in i..(j - 1) : chars[k] \in WhiteSpace

\* chars[i..j-1] is an unsigned integer or decimal
IsUnsigned(chars, i, j) ==
    \/ IsDigitRun(chars, i, j)
    \/ \E d \in (i + 1)..(j - 2) :
          IsDigitRun(chars, i, d) /\ chars[d] \in DecimalMarks /\ IsDigitRun(chars, d + 1, j)

\* chars[i..j-1] is a signed or unsigned number, its integer part optional
IsSigned(chars, i, j) ==
    LET b == IF i <= Len(chars) /\ chars[i] \in {"-", "+"} THEN i + 1 ELSE i
    IN  \/ IsDigitRun(chars, b, j)
        \/ \E d \in b..(j - 2) :
              /\ d = b \/ IsDigitRun(chars, b, d)
              /\ chars[d] \in DecimalMarks
              /\ IsDigitRun(chars, d + 1, j)

SeparatorWords ==
    { <<"-">>, <<"U+2013">>, <<"U+2014">>, <<"t", "o">>, <<"T", "o">>, <<"t", "O">>, <<"T", "O">> }

\* chars[i..j-1] is a range separator with its optional whitespace
IsSeparator(chars, i, j) ==
    \E a \in i..(j - 1) : \E b \in (a + 1)..j :
        /\ AllWhite(chars, i, a)
        /\ SubSeq(chars, a, b - 1) \in SeparatorWords
        /\ AllWhite(chars, b, j)

\* a range A<sep>B begins at p: A is chars[p..q-1], B is chars[r..e-1]
IsRange(chars, p, q, r, e) ==
    /\ IsUnsigned(chars, p, q)
    /\ IsSeparator(chars, q, r)
    /\ IsUnsigned(chars, r, e)

RangeStarts(chars) ==
    { p \in 1..Len(chars) :
        \E q \in (p + 1)..Len(chars) : IsUnsigned(chars, p, q) /\
            \E r \in (q + 1)..Len(chars) : IsSeparator(chars, q, r) /\
                \E e \in (r + 1)..(Len(chars) + 1) : IsUnsigned(chars, r, e) }

HasRange(chars) == RangeStarts(chars) # {}

\* the first range of chars, its second number as long as it can be
FirstRange(chars) ==
    LET p == Least(RangeStarts(chars))
        pos == 1..(Len(chars) + 1)
        e == Greatest({ x \in pos : \E q \in pos, r \in pos : IsRange(chars, p, q, r, x) })
        qr == CHOOSE y \in pos \X pos : IsRange(chars, p, y[1], y[2], e)
    IN  [p |-> p, q |-> qr[1], r |-> qr[2], e |-> e]

\* the digits of chars[i..j-1] as an integer, and how many of them follow the mark
DigitsOf(chars, i, j) == DigitsValue(SelectSeq(SubSeq(chars, i, j - 1), IsDigitChar))

FractionDigits(chars, i, j) ==
    LET marks == { k \in i..(j - 1) : chars[k] \in DecimalMarks }
    IN  IF marks = {} THEN 0 ELSE j - 1 - Greatest(marks)

\* round(n / 10^d) for n >= 0: the nearest integer, halves upwards
RoundScaled(n, d) == (2 * n + Pow(10, d)) \div (2 * Pow(10, d))

\* max(0, round((A + B) / 2)) of the first range
MidpointOfFirstRange(chars) ==
    LET rg == FirstRange(chars)
        dA == FractionDigits(chars, rg.p, rg.q)
        dB == FractionDigits(chars, rg.r, rg.e)
        d == Max(dA, dB)
        sum == DigitsOf(chars, rg.p, rg.q) * Pow(10, d - dA)
                  + DigitsOf(chars, rg.r, rg.e) * Pow(10, d - dB)
    IN  (sum + Pow(10, d)) \div (2 * Pow(10, d))

NumberStarts(chars) ==
    { i \in 1..Len(chars) : \E j \in (i + 1)..(Len(chars) + 1) : IsSigned(chars, i, j) }

HasNumber(chars) == NumberStarts(chars) # {}

\* max(0, round(x)) of the first signed or unsigned number x
RoundedFirstNumber(chars) ==
    LET i == Least(NumberStarts(chars))
        j == Greatest({ x \in (i + 1)..(Len(chars) + 1) : IsSigned(chars, i, x) })
    IN  IF chars[i] = "-" THEN 0
        ELSE RoundScaled(DigitsOf(chars, i, j), FractionDigits(chars, i, j))

\* the string is too short to spell a number beyond the doubles
WithinDoubles(chars) == Len(chars) <= MaxDoubleDigits

\* C13: for a string that contains a range A<sep>B (a comma or a period as
\* the decimal mark of A and B, both within the doubles),
\* parseNutritionNumber returns max(0, round((A + B) / 2)) of the first such
\* range, also when a number stands before the range.
C13_RangeMidpoint ==
    (/\ Called("parseNutritionNumber")
     /\ normCall.arg.type = "string"
     /\ WithinDoubles(normCall.arg.chars)
     /\ HasRange(normCall.arg.chars))
        => normReturn = Fin(MidpointOfFirstRange(normCall.arg.chars), 0)

\* parseNutritionNumber("5 or 10-20") has returned 15, not 5
C13_Witness ==
    /\ Called("parseNutritionNumber")
    /\ normCall.arg = Str(<<"5", " ", "o", "r", " ", "1", "0", "-", "2", "0">>)
    /\ HasRange(normCall.arg.chars)
    /\ normReturn = Fin(15, 0)

PresentAliases(raw, aliases) ==
    { k \in 1..Len(aliases) :
        aliases[k] \in DOMAIN raw /\ raw[aliases[k]] # Null /\ raw[aliases[k]] # Undefined }

FirstPresent(raw, aliases) ==
    IF PresentAliases(raw, aliases) = {} THEN Zero
    ELSE parseNutritionNumber(raw[aliases[Least(PresentAliases(raw, aliases))]])

AlternateKeys ==
    [ kalori |-> "calories", protein_g |-> "protein", karbohidrat |-> "carbs",
      lemak |-> "fat", serat |-> "fiber" ]

\* the record with the values of raw under the English keys
English(raw) ==
    [ f \in { AlternateKeys[k] : k \in DOMAIN raw } |->
        raw[CHOOSE k \in DOMAIN raw : AlternateKeys[k] = f] ]

C15_FirstPresentAlias ==
    Called("normalizeNutritionData")
        => /\ DOMAIN normReturn = {"calories", "protein", "carbs", "fat", "fiber"}
           /\ \A f \in DOMAIN FieldAliases :
                 normReturn[f] = FirstPresent(normCall.raw, FieldAliases[f])
           /\ DOMAIN normCall.raw \subseteq DOMAIN AlternateKeys
                 => normReturn = normalizeNutritionData(English(normCall.raw))

\* the record {kalori: "200-300", protein_g: "20,5", karbohidrat: -30,
\* lemak: 10.5, serat: 5} has been normalized
C15_Witness ==
    /\ Called("normalizeNutritionData")
    /\ DOMAIN normCall.raw = {"kalori", "protein_g", "karbohidrat", "lemak", "serat"}
    /\ normReturn = [calories |-> Fin(250, 0), protein |-> Fin(21, 0), carbs |-> Zero,
                     fat |-> Fin(11, 0), fiber |-> Fin(5, 0)]

\* C16: for each of calories, protein, carbs and fat, extractNutritionFromText
\* gives parseNutritionNumber of what the keyword-then-number pattern captures
\* for the first keyword, in list order, that has such a match; when no
\* keyword of the nutrient has one, parseNutritionNumber of what the
\* number-then-keyword pattern captures; and 0 when that has no match either.
KeywordsWithMatch(text, keys) ==
    { k \in 1..Len(keys) : StringMatch(text, KeywordRegex(keys[k])).found }

ExpectedFromText(text, keys) ==
    IF KeywordsWithMatch(text, keys) # {}
    THEN parseNutritionNumber(Str(Group(text,
             StringMatch(text, KeywordRegex(keys[Least(KeywordsWithMatch(text, keys))])), 1)))
    ELSE IF StringMatch(text, UnitRegex(keys)).found
    THEN parseNutritionNumber(Str(Group(text, StringMatch(text, UnitRegex(keys)), 1)))
    ELSE Zero

C16_KeywordThenUnit ==
    Called("extractNutritionFromText")
        => \A f \in DOMAIN TextKeywords :
              normReturn[f] = ExpectedFromText(normCall.text, TextKeywords[f])

\* "100 kcal, calories: 200" has given calories 200 (the keyword pattern),
\* and nothing for the other nutrients
C16_Witness ==
    /\ Called("extractNutritionFromText")
    /\ normCall.text = <<"1","0","0"," ","k","c","a","l",","," ","c","a","l","o","r","i","e","s",":"," ","2","0","0">>
    /\ normReturn = [calories |-> Fin(200, 0), protein |-> Zero, carbs |-> Zero, fat |-> Zero]

\* C17 as stated: every field of mergeNutrition(primary, fallback) is
\* primary's value when that value is not 0 and fallback's value otherwise, so
\* that a primary without a zero field is returned unchanged.
C17_PrimaryUnlessZero ==
    Called("mergeNutrition")
        => /\ \A f \in NutritionFields :
                 normReturn[f] = IF Get(normCall.primary, f) # Zero
                                 THEN Get(normCall.primary, f)
                                 ELSE Get(normCall.fallback, f)
           /\ (\A f \in DOMAIN normCall.primary : normCall.primary[f] # Zero)
                 => \A f \in NutritionFields : normReturn[f] = Get(normCall.primary, f)

\* C17 amended: every field of mergeNutrition(primary, fallback) is primary's
\* value when primary has the field with a value other than 0, and fallback's
\* value otherwise (also when primary has no fiber field); merging a record
\* with itself changes none of its fields, and a primary that has all five
\* fields, none of them 0, is returned unchanged.
C17_PrimaryUnlessZeroOrAbsent ==
    Called("mergeNutrition")
        => /\ \A f \in NutritionFields :
                 normReturn[f] = IF f \in DOMAIN normCall.primary /\ normCall.primary[f] # Zero
                                 THEN normCall.primary[f]
                                 ELSE Get(normCall.fallback, f)
           /\ normCall.fallback = normCall.primary
                 => \A f \in NutritionFields : normReturn[f] = Get(normCall.primary, f)
           /\ (/\ DOMAIN normCall.primary = NutritionFields
               /\ \A f \in NutritionFields : normCall.primary[f] # Zero)
                 => normReturn = normCall.primary

\* a primary without a fiber field and without a zero field has been merged
\* with a fallback whose fiber is 9: the result has fiber 9
C17_Witness ==
    /\ Called("mergeNutrition")
    /\ DOMAIN normCall.primary = {"calories", "protein", "carbs", "fat"}
    /\ \A f \in DOMAIN normCall.primary : normCall.primary[f] = Fin(7, 0)
    /\ Get(normCall.fallback, "fiber") = Fin(9, 0)
    /\ normReturn.fiber = Fin(9, 0)
    /\ normReturn.calories = Fin(7, 0)

\* C18: isNutritionEmpty(n) is true exactly when calories, protein, carbs and
\* fat of n are all 0, whatever the fiber field of n is, present or not.
WithFiber(n, v) == [ f \in NutritionFields |-> IF f = "fiber" THEN v ELSE n[f] ]

WithoutFiber(n) == [ f \in {"calories", "protein", "carbs", "fat"} |-> n[f] ]

C18_EmptyIffMacrosZero ==
    Called("isNutritionEmpty")
        => /\ normReturn.value
                 = (\A f \in {"calories", "protein", "carbs", "fat"} : normCall.n[f] = Zero)
           /\ normReturn = isNutritionEmpty(WithoutFiber(normCall.n))
           /\ \A v \in {Zero, Fin(7, 0)} : normReturn = isNutritionEmpty(WithFiber(normCall.n, v))

\* a record with all four macros 0 and fiber 7 has been found empty
C18_Witness ==
    /\ Called("isNutritionEmpty")
    /\ normCall.n = [calories |-> Zero, protein |-> Zero, carbs |-> Zero, fat |-> Zero,
                     fiber |-> Fin(7, 0)]
    /\ normReturn.value

\* C19: parseNumber returns what parseNutritionNumber returns for null, for
\* undefined, for every number, for every value of another type and for
\* every string without a range; for a string with a range it returns
\* max(0, round(x)) of the first number x of the string.
C19_SameButForRanges ==
    Called("parseNumber")
        => IF normCall.arg.type = "string" /\ HasRange(normCall.arg.chars)
           THEN normReturn = Fin(RoundedFirstNumber(normCall.arg.chars), 0)
           ELSE normReturn = parseNutritionNumber(normCall.arg)

\* parseNumber("200-300") has returned 200 where parseNutritionNumber gives 250
C19_Witness ==
    /\ Called("parseNumber")
    /\ normCall.arg = Str(<<"2","0","0","-","3","0","0">>)
    /\ normReturn = Fin(200, 0)
    /\ parseNutritionNumber(normCall.arg) = Fin(250, 0)


\* C20: there are four presets, quick, standard, aggressive and conservative,
\* each with the four fields maxRetries, initialDelay, maxDelay and
\* backoffMultiplier and no other; their values are quick 2, 1000, 3000, 2,
\* standard 3, 1000, 10000, 2, aggressive 5, 500, 15000, 2 and conservative
\* 2, 2000, 8000, 2.
PresetFields == {"maxRetries", "initialDelay", "maxDelay", "backoffMultiplier"}

PresetTable ==
    { <<"quick", 2, 1000, 3000, 2>>, <<"standard", 3, 1000, 10000, 2>>,
      <<"aggressive", 5, 500, 15000, 2>>, <<"conservative", 2, 2000, 8000, 2>> }

C20_PresetValues ==
    /\ DOMAIN RetryPresets = { row[1] : row \in PresetTable }
    /\ Called("RetryPresets")
          => /\ normReturn # Undefined
             /\ DOMAIN normReturn = PresetFields
             /\ \E row \in PresetTable :
                   /\ row[1] = normCall.name
                   /\ normReturn.maxRetries = row[2]
                   /\ normReturn.initialDelay = row[3]
                   /\ normReturn.maxDelay = row[4]
                   /\ normReturn.backoffMultiplier = row[5]

\* RetryPresets.aggressive has been read: 5 retries from 500 ms up to 15000 ms
C20_Witness ==
    /\ Called("RetryPresets")
    /\ normCall.name = "aggressive"
    /\ normReturn = [maxRetries |-> 5, initialDelay |-> 500, maxDelay |-> 15000,
                     backoffMultiplier |-> 2]

----------------------------------------------------------------------------
(* The nutrition-ai edge function (src/supabase/functions/nutrition-ai/      *)
(* index.ts): the handler passed to Deno.serve, one step per await.  The    *)
(* requests in progress are a bag of handler states: several requests run   *)
(* at once and the handler keeps nothing that tells two of them apart.      *)
(* All requests with a valid token belong to one user and fall into one     *)
(* rate window, so rate_limits has at most the one row of that user.        *)

MaxRequests == 3

\* the environment setting RATE_MAX_PER_WINDOW
RATE_MAX_PER_WINDOW == 2

InitEdge ==
    /\ requests = EmptyBag
    /\ rate_limits = {}
    /\ IdleExcept("edge")

\* the request in state r moves on to state r2
Continue(r, r2) ==
    /\ requests' = (requests (-) SetToBag({r})) (+) SetToBag({r2})
    /\ UNCHANGED <<retryVars, normVars, bufferVars>>

\* A request arrives: the handler up to the token verification call.  It
\* answers a preflight request, a malformed body and a missing OpenAI key at
\* once, and a request without a bearer token with 401.
Receive ==
    /\ BagCardinality(requests) < MaxRequests
    /\ \E method \in {"OPTIONS", "POST"}, bodyParses \in BOOLEAN, openAIKey \in BOOLEAN,
          bearer \in BOOLEAN :
          LET r == [pc |-> "responded", bearer |-> bearer, userId |-> Null,
                    currentCount |-> 0, upserted |-> FALSE, openai |-> FALSE,
                    status |-> 200]
              r2 == IF method = "OPTIONS" THEN r
                    ELSE IF ~bodyParses THEN [r EXCEPT !.status = 400]
                    ELSE IF ~openAIKey THEN [r EXCEPT !.status = 500]
                    ELSE IF ~bearer THEN [r EXCEPT !.status = 401]
                    ELSE [r EXCEPT !.pc = "verifying", !.status = 0]
          IN  requests' = requests (+) SetToBag({r2})
    /\ UNCHANGED rate_limits
    /\ UNCHANGED <<retryVars, normVars, bufferVars>>

\* the token verification taken as passed whatever the auth server answers
VerifyToken_NoCheck ==
    /\ \E r \in BagToSet(requests) :
          /\ r.pc = "verifying"
          /\ Continue(r, [r EXCEPT !.pc = "selecting"])
    /\ UNCHANGED rate_limits

\* await fetch(`${SUPABASE_URL}/auth/v1/user`) settles: the user id is set
\* only from an ok answer that carries an id string; without it, 401.
VerifyToken ==
    /\ \E r \in BagToSet(requests), answer \in {"user", "not ok", "no id", "threw"} :
          /\ r.pc = "verifying"
          /\ Continue(r, IF answer = "user"
                         THEN [r EXCEPT !.pc = "selecting", !.userId = [type |-> "string", id |-> "user-1"]]
                         ELSE [r EXCEPT !.pc = "responded", !.status = 401])
    /\ UNCHANGED rate_limits

\* the select of request_count returns; currentCount + 1 > RATE_MAX_PER_WINDOW gives 429
SelectRequestCount ==
    /\ \E r \in BagToSet(requests) :
          /\ r.pc = "selecting"
          /\ LET existing == { row \in rate_limits : row.user_id = r.userId }
                 currentCount == IF existing = {} THEN 0
                                 ELSE (CHOOSE row \in existing : TRUE).request_count
             IN  Continue(r, IF currentCount + 1 > RATE_MAX_PER_WINDOW
                            THEN [r EXCEPT !.pc = "responded", !.status = 429,
                                           !.currentCount = currentCount]
                            ELSE [r EXCEPT !.pc = "upserting",
                                           !.currentCount = currentCount])
    /\ UNCHANGED rate_limits

\* the upsert of request_count: currentCount + 1 replaces the row of the user and window
UpsertRequestCount ==
    \E r \in BagToSet(requests) :
        /\ r.pc = "upserting"
        /\ rate_limits' = { row \in rate_limits : row.user_id # r.userId }
                             \cup { [user_id |-> r.userId, window_start |-> 0,
                                     request_count |-> r.currentCount + 1] }
        /\ Continue(r, [r EXCEPT !.pc = "calling", !.upserted = TRUE])

\* the image is prepared, the OpenAI API is called (with its retries) and
\* the request is answered: 200, or 502 or 500 when the call failed
CallOpenAI ==
    /\ \E r \in BagToSet(requests), status \in {200, 500, 502} :
          /\ r.pc = "calling"
          /\ Continue(r, [r EXCEPT !.pc = "responded", !.openai = TRUE, !.status = status])
    /\ UNCHANGED rate_limits

NextEdge ==
    \/ Receive
    \/ VerifyToken
    \/ SelectRequestCount
    \/ UpsertRequestCount
    \/ CallOpenAI

SpecEdge == InitEdge /\ [][NextEdge]_vars

----------------------------------------------------------------------------
(* The metrics buffer of src/src/lib/performanceMonitor.ts: the module-     *)
(* level array metricsBuffer and the batch reporting timer.  A metric is    *)
(* represented by its number in the order of recording.                     *)

MAX_BUFFER_SIZE == 50

MaxRecorded == 53

InitBuffer ==
    /\ metricsBuffer = << >>
    /\ reportIntervalId = Null
    /\ recorded = 0
    /\ IdleExcept("buffer")

\* recordMetric keeping the oldest entries when the buffer is full
recordMetric_DropsNewest(buffer, metric) ==
    IF Len(buffer) + 1 > MAX_BUFFER_SIZE THEN buffer ELSE Append(buffer, metric)

\* metricsBuffer.push(metric), then shift() when longer than MAX_BUFFER_SIZE
recordMetric(buffer, metric) ==
    LET pushed == Append(buffer, metric)
    IN  IF Len(pushed) > MAX_BUFFER_SIZE THEN Tail(pushed) ELSE pushed

RecordMetric ==
    /\ recorded < MaxRecorded
    /\ recorded' = recorded + 1
    /\ metricsBuffer' = recordMetric(metricsBuffer, recorded + 1)
    /\ UNCHANGED reportIntervalId
    /\ UNCHANGED <<retryVars, normVars, edgeVars>>

\* startBatchReporting: sets the interval unless one is set
StartBatchReporting ==
    /\ reportIntervalId = Null
    /\ reportIntervalId' = Fin(1, 0)
    /\ UNCHANGED <<metricsBuffer, recorded>>
    /\ UNCHANGED <<retryVars, normVars, edgeVars>>

\* the interval callback: reportMetrics() when the buffer is not empty,
\* which copies the buffer and empties it before it sends the copy
ReportMetrics ==
    /\ reportIntervalId # Null
    /\ metricsBuffer # << >>
    /\ metricsBuffer' = << >>
    /\ UNCHANGED <<reportIntervalId, recorded>>
    /\ UNCHANGED <<retryVars, normVars, edgeVars>>

ClearMetricsBuffer ==
    /\ metricsBuffer' = << >>
    /\ UNCHANGED <<reportIntervalId, recorded>>
    /\ UNCHANGED <<retryVars, normVars, edgeVars>>

\* stopPerformanceMonitoring: clears the interval and reports what is left
StopPerformanceMonitoring ==
    /\ reportIntervalId' = Null
    /\ metricsBuffer' = << >>
    /\ UNCHANGED recorded
    /\ UNCHANGED <<retryVars, normVars, edgeVars>>

NextBuffer ==
    \/ RecordMetric
    \/ StartBatchReporting
    \/ ReportMetrics
    \/ ClearMetricsBuffer
    \/ StopPerformanceMonitoring

SpecBuffer == InitBuffer /\ [][NextBuffer]_vars

----------------------------------------------------------------------------
(* Properties of retry(): scheduling and delays *)

RECURSIVE SumOf(_)
SumOf(seq) == IF seq = << >> THEN 0 ELSE Head(seq) + SumOf(Tail(seq))

\* the un-jittered delay after the attempt with index n
BaseDelay(n) ==
    Min(opts.initialDelay * Pow(opts.backoffMultiplier, n), opts.maxDelay)

\* C21: within one invocation the attempts are strictly sequential: fn() is
\* called for attempt n + 1 only when all n earlier calls have settled and
\* the n delays taken for them have fully elapsed, so at most one call of
\* fn() is in flight at any moment.
C21_AttemptsSequential ==
    /\ pc = "loop" => calls = attempt
    /\ pc \in {"awaiting", "sleeping"} => calls = attempt + 1
    /\ pc \in {"loop", "awaiting"} => (Len(delays) = attempt /\ now = SumOf(delays))
    /\ pc = "sleeping" => (Len(delays) = attempt + 1 /\ now = SumOf(SubSeq(delays, 1, attempt)))

\* the third attempt is in flight after two settled attempts and two elapsed delays
C21_Witness ==
    /\ pc = "awaiting"
    /\ calls = 3
    /\ attempt = 2
    /\ delays = <<100, 150>>
    /\ now = 250

\* C22: one delay is taken per retry transition and none elsewhere: a
\* finished invocation has taken attempts - 1 delays, none of them after the
\* attempt that ended it, and while it runs the number of delays is the
\* number of retry transitions begun.
C22_OneDelayPerRetry ==
    /\ Done => Len(delays) = calls - 1
    /\ pc = "returned" => Len(delays) = result.attempts - 1
    /\ pc \in {"loop", "awaiting"} => Len(delays) = attempt
    /\ pc = "sleeping" => Len(delays) = attempt + 1
    /\ Len(delays) <= opts.maxRetries

\* three attempts, two delays, ended by an exhausted budget
C22_Witness ==
    /\ pc = "returned"
    /\ ~result.success
    /\ result.attempts = 3
    /\ Len(delays) = 2
    /\ opts.maxRetries = 2
    /\ retryableFails = 3

\* C23: every invocation of retry() eventually reaches Succeeded or
\* FailedTerminal and returns its result, when every call of fn() settles
\* and every backoff timer fires.
C23_EventuallyReturns == <>(pc = "returned")

\* C24: with jitter enabled every delay taken is at least 0 and lies between
\* 0.8 and 1.2 times the un-jittered delay of its attempt.
C24_JitterWithinFifth ==
    opts.jitter
        => \A i \in 1..Len(delays) :
              /\ delays[i] >= 0
              /\ 5 * delays[i] >= 4 * BaseDelay(i - 1)
              /\ 5 * delays[i] <= 6 * BaseDelay(i - 1)

\* jittered delays of 80 ms (100 ms less 20%) and 165 ms (the cap of 150 ms plus 10%)
C24_Witness ==
    /\ opts.jitter
    /\ opts.maxDelay = 150
    /\ delays = <<80, 165>>

\* C26: a Response with ok = true ends the invocation in success on the
\* attempt that produced it, whatever isRetryableResponse would say of it:
\* the predicate is consulted for non-ok responses only.
C26_OkResponseSucceeds ==
    (lastOutcome.kind = "resolve" /\ instanceofResponse(lastOutcome.value)
       /\ lastOutcome.value.ok)
        => /\ pc = "returned"
           /\ result.success
           /\ result.data = lastOutcome.value
           /\ result.attempts = attempt + 1
           /\ calls = attempt + 1
           /\ Len(delays) = attempt
           /\ lastResponse # lastOutcome.value

\* an ok response ends the second attempt in success under a predicate that flags every response
C26_Witness ==
    /\ pc = "returned"
    /\ opts.isRetryableResponse = "always"
    /\ lastOutcome.kind = "resolve"
    /\ instanceofResponse(lastOutcome.value)
    /\ lastOutcome.value.ok
    /\ result.success
    /\ result.attempts = 2

\* What one invocation with the locals s has done, told from its own
\* options and the outcomes of its own calls of fn() alone.
AsAlone(s) ==
    LET o == s.lastOutcome
        retryable ==
            \/ /\ o.kind = "throw"
               /\ isRetryable(s.opts.isRetryable, o.value) = Returned(TRUE)
            \/ /\ o.kind = "resolve" /\ instanceofResponse(o.value) /\ ~o.value.ok
               /\ isRetryableResponse(s.opts.isRetryableResponse, o.value) = Returned(TRUE)
        expectedError ==
            IF o.kind = "throw" THEN LastErrorOf(o.value)
            ELSE ExhaustedResponseError(o.value, s.calls - 1)
    IN  /\ s.calls <= s.opts.maxRetries + 1
        /\ s.pc \in {"loop", "awaiting", "sleeping", "returned"}
        /\ s.pc = "loop" => (s.calls = s.attempt /\ Len(s.delays) = s.calls)
        /\ s.pc = "awaiting" => (s.calls = s.attempt + 1 /\ Len(s.delays) = s.calls - 1)
        /\ s.pc = "sleeping"
              => (s.calls = s.attempt + 1 /\ Len(s.delays) = s.calls /\ retryable)
        /\ s.pc # "returned" => s.retryableFails = Len(s.delays)
        /\ (o.kind = "none") <=> (s.calls = 0 \/ (s.calls = 1 /\ s.pc = "awaiting"))
        /\ (o.kind # "none" /\ "ref" \in DOMAIN o.value)
              => o.value.ref = <<"fn", IF s.pc = "awaiting" THEN s.calls - 1 ELSE s.calls>>
        /\ s.pc = "returned"
              => /\ s.calls = s.attempt + 1
                 /\ s.result.attempts = s.calls
                 /\ Len(s.delays) = s.calls - 1
                 /\ s.retryableFails >= s.calls - 1
                 /\ IF retryable
                    THEN /\ ~s.result.success
                         /\ s.calls = s.opts.maxRetries + 1
                         /\ s.result.error = expectedError
                    ELSE IF o.kind = "throw"
                    THEN ~s.result.success /\ s.result.error = expectedError
                    ELSE s.result.success /\ s.result.data = o.value

\* C25: two invocations of retry() running concurrently share no mutable
\* state: under every interleaving of their attempts and delays, the result
\* of each (success, data or error, attempts) and the number of times it
\* called its operation are those its own options and its own operation's
\* outcomes give when it runs alone.
C25_InvocationsIndependent ==
    /\ AsAlone(Locals)
    /\ parked # NoValue => AsAlone(parked.locals)

\* the second invocation succeeded on its retry while the first, now parked,
\* had failed on its first attempt with an error that is not retryable
C25_Witness ==
    /\ parked # NoValue
    /\ parked.id = 1
    /\ parked.locals.pc = "returned"
    /\ ~parked.locals.result.success
    /\ parked.locals.result.attempts = 1
    /\ pc = "returned"
    /\ result.success
    /\ result.attempts = 2

----------------------------------------------------------------------------
(* Properties of analyzeFoodImage *)

\* C29: analyzeFoodImage never inserts into user_meals a meal whose
\* calories, carbs, protein and fat are all zero; this covers the meal of
\* the error fallback, which is returned and never inserted.  A row is
\* inserted only by analyzeFoodImage, at most once per call, and carries the
\* calories, carbs and protein of the returned meal.
C29_NoEmptyMealInserted ==
    /\ user_meals # << >> => (normCall.fn = "analyzeFoodImage" /\ normReturn # NoValue)
    /\ Len(user_meals) <= 1
    /\ \A i \in DOMAIN user_meals :
          /\ ~(/\ normReturn.calories = Zero /\ normReturn.carbs = Zero
               /\ normReturn.protein = Zero /\ normReturn.fat = Zero)
          /\ normReturn.aiMode # "error-fallback"
          /\ user_meals[i].calories = normReturn.calories
          /\ user_meals[i].carbs = normReturn.carbs
          /\ user_meals[i].protein = normReturn.protein

\* a meal with fat only has been inserted (its row has no fat column), and
\* so the all-zero test was made and passed with three of the four at zero
C29_Witness ==
    /\ normCall.fn = "analyzeFoodImage"
    /\ Len(user_meals) = 1
    /\ user_meals[1].calories = Zero /\ user_meals[1].carbs = Zero
    /\ user_meals[1].protein = Zero
    /\ normReturn.fat # Zero

----------------------------------------------------------------------------
(* Properties of the nutrition-ai edge function *)

\* the number of requests in progress or answered that satisfy P
Count(P(_)) ==
    LET S == { r \in BagToSet(requests) : P(r) }
    IN  BagCardinality([r \in S |-> CopiesIn(r, requests)])

\* the request has passed the rate-limit check: it calls OpenAI or has called it
PassedRateLimit(r) == r.pc \in {"upserting", "calling"} \/ r.openai

\* C27: for one user and one rate window at most RATE_MAX_PER_WINDOW
\* requests pass the rate-limit check and go on to the OpenAI call, also
\* when the requests of the user are handled concurrently.
C27_AtMostMaxPerWindow == Count(PassedRateLimit) <= RATE_MAX_PER_WINDOW

\* the request has written to rate_limits or called OpenAI, or is about to
HasEffect(r) == r.pc \in {"selecting", "upserting", "calling"} \/ r.upserted \/ r.openai

----------------------------------------------------------------------------
(* Properties of the metrics buffer *)

\* C30: after any sequence of recordMetric, batch report, clearMetricsBuffer
\* and stopPerformanceMonitoring calls the buffer holds at most
\* MAX_BUFFER_SIZE entries, and they are the most recently recorded metrics
\* in the order of recording.
C30_BufferBounded ==
    /\ Len(metricsBuffer) <= MAX_BUFFER_SIZE
    /\ Len(metricsBuffer) <= recorded
    /\ \A i \in DOMAIN metricsBuffer :
          metricsBuffer[i] = recorded - Len(metricsBuffer) + i

\* 52 metrics were recorded without a report in between: the buffer is
\* full and the two oldest have been dropped
C30_Witness ==
    /\ recorded = MAX_BUFFER_SIZE + 2
    /\ Len(metricsBuffer) = MAX_BUFFER_SIZE
    /\ metricsBuffer[1] = 3
    /\ metricsBuffer[MAX_BUFFER_SIZE] = recorded

====
